---- MODULE Spec2Model ----
(***************************************************************************)
(* Statement-to-ledger pipeline of finsight: issuer detection, redaction   *)
(* and ledger extraction, modelled as state machines over tokenised text.  *)
(*                                                                         *)
(* Text is a sequence of lines, a line a sequence of tokens [t, v]: t is   *)
(* the kind of text the source's regular expressions and includes() calls  *)
(* look for, v its value (a money value in cents, a date as month*100+day).*)
(* Money is exact decimal arithmetic in cents.                             *)
(***************************************************************************)
EXTENDS Integers, Sequences, FiniteSets, TLC

VARIABLES
    lines,            \* the text given to parse(), split on "\n"
    parser,           \* which extractor runs: "balance" | "cibc" | "rbc"
    bank,             \* the issuer tag given to parse()
    pc,               \* "start" | "scan" | "done" | "threw"; "detected" after detectBank alone
    idx,              \* the loop index i of parseTransactions (1-based)
    currentDate,      \* <<>> for null, <<d>> otherwise
    previousBalance,  \* <<>> for null, <<cents>> otherwise
    summary,          \* parseAccountSummary's opening_balance: <<>> or <<cents>>
    period,           \* parseStatementPeriod: <<>> for null, <<start, end>> as yyyymmdd
    year,             \* the year given to parseTransactions
    transactions,     \* the transactions pushed so far
    emittedAt,        \* history: the line index each transaction was pushed at
    \* the coordinate extractor (unnamed/part_001)
    rows,             \* the rows given to parseTransactions(rows, columns), top to bottom
    cpc,              \* "idle" | "start" | "rows" | "done"
    dataRows,         \* the rows left after the header filter
    cIdx,             \* the position of forEach in dataRows
    cDate,            \* currentDate: <<>> for null, <<token value>> otherwise
    cDescription,     \* currentDescription
    cTransactions,    \* the transactions pushed so far
    cAt,              \* history: the dataRows index whose amounts each transaction took
    \* detectBank (utils/detectBank.js)
    dText,            \* the text given to detectBank: chunks of characters, a space between
    dpc,              \* "idle" | "start" | "returned" | "threw"
    dResult,          \* the issuer tag returned ("" until then)
    \* the web application: POST /api/extract and the review page
    fForm,            \* the entries of the uploaded form data
    fTxn,             \* the first transaction of a review group, as the API returned it
    fpc,              \* "idle" | "start" | "awaiting" | "responded" | "rendered"
    fNet,             \* what has been sent over the network so far
    fStatus,          \* the HTTP status of the route's response (0 until then)
    fShown,           \* what the review page shows in the transaction box
    \* the scrubbers (scrubbers/rbc.js)
    sBank,            \* which scrub function runs: "rbc" | "cibc"
    sInput,           \* the text given to scrub
    sText,            \* scrubbed: the text after the rules applied so far
    sRule,            \* how many of the replace calls have run
    spc,              \* "idle" | "scrub" | "done"
    \* POST /api/learn-merchant (unnamed/part_010, app/api/learn-merchant/route.ts)
    route,            \* the route deployed: "local" (Python script) | "remote" (Python API)
    dictFile,         \* merchant_dictionary.json: key -> entry
    lBody,            \* per request slot: the request body
    lpc,              \* per slot: "idle" | "load" | "learn" | "save" | "respond" | "done"
    lDict,            \* per slot: the dictionary in the memory of its Python process
    lResult,          \* per slot: what learn_from_user_edit returned
    lResp,            \* per slot: the response of the route
    \* POST /api/extract, the local route (unnamed/part_009)
    eFiles,           \* the PDF files of the form
    epc,              \* "idle" | "start" | "extract" | "build" | "match" | "respond" | "done"
    eIdx,             \* the file the for loop is at (1-based)
    eTemp,            \* the files whose temp files are on disk
    eParsed,          \* parsedData of the current file
    eJson,            \* the content of tempJsonPath of the current file
    eResults,         \* results
    eFallback,        \* history: the files whose dictionary step failed
    eResp,            \* the response of the route
    \* the browser session (unnamed/part_011, review/page.tsx, insights/page.tsx)
    uPage,            \* "home" | "review-loading" | "review" | "insights-loading" | "insights"
    uScored,          \* localStorage pdf_insights_scored: <<>> or <<scored data>>
    uInsights,        \* localStorage pdf_insights_insights: <<>> or <<report>>
    uData,            \* review page: scoredData
    uLow,             \* review page: lowConfidence
    uShown,           \* insights page: insights
    uFetch,           \* review page: <<>> or <<the last handleSaveEdit call and the body it posted>>
    \* the preauthorized step of normalize_merchant
    nPrefix,          \* the description given: <<the transaction kind>>
    nReference,       \* the description given: <<>> or <<the reference number>>
    nMerchant,        \* the description given: the words of the merchant name
    npc,              \* "idle" | "start" | "done"
    nResult,          \* the description after the step
    \* the temporary files of the local routes (unnamed/part_009, unnamed/part_008,
    \* app/api/insights/route.ts second half: extract, insights, merge)
    tClock,           \* Date.now(), in milliseconds
    tKind,            \* per request: "" | "extract" | "insights" | "merge"
    tpc,              \* per request: "idle" | "naming" | "exec" | "read" | "cleanup" | "returned"
    tTodo,            \* per request: the temporary file names still to be built
    tFiles,           \* per request: tempFiles
    tDisk,            \* os.tmpdir(): the files on disk, each with the requests whose data it holds
    tResp             \* per request: <<>> or <<the response: its status, the requests whose data it holds>>

parseVars == <<lines, parser, bank, pc, idx, currentDate, previousBalance, summary,
               period, year,
               transactions, emittedAt>>

coordVars == <<rows, cpc, dataRows, cIdx, cDate, cDescription, cTransactions, cAt>>

detectVars == <<dText, dpc, dResult>>

flowVars == <<fForm, fTxn, fpc, fNet, fStatus, fShown>>

scrubVars == <<sBank, sInput, sText, sRule, spc>>

learnRouteVars == <<route, lBody, lpc, lDict, lResult, lResp>>

learnVars == <<dictFile, learnRouteVars>>

extractVars == <<eFiles, epc, eIdx, eTemp, eParsed, eJson, eResults, eFallback, eResp>>

sessionVars == <<uPage, uScored, uInsights, uData, uLow, uShown, uFetch>>

normalizeVars == <<nPrefix, nReference, nMerchant, npc, nResult>>

tempVars == <<tClock, tKind, tpc, tTodo, tFiles, tDisk, tResp>>

vars == <<parseVars, coordVars, detectVars, flowVars, scrubVars, learnVars, extractVars,
         sessionVars, normalizeVars, tempVars>>

nonParseVars == <<coordVars, detectVars, flowVars, scrubVars, learnVars, extractVars,
    sessionVars, normalizeVars, tempVars>>

nonCoordVars == <<parseVars, detectVars, flowVars, scrubVars, learnVars, extractVars,
    sessionVars, normalizeVars, tempVars>>

nonDetectVars == <<parseVars, coordVars, flowVars, scrubVars, learnVars, extractVars,
    sessionVars, normalizeVars, tempVars>>

nonFlowVars == <<parseVars, coordVars, detectVars, scrubVars, learnVars, extractVars,
    sessionVars, normalizeVars, tempVars>>

nonScrubVars == <<parseVars, coordVars, detectVars, flowVars, learnVars, extractVars,
    sessionVars, normalizeVars, tempVars>>

nonLearnVars == <<parseVars, coordVars, detectVars, flowVars, scrubVars, extractVars,
    sessionVars, normalizeVars, tempVars>>

nonExtractVars == <<parseVars, coordVars, detectVars, flowVars, scrubVars, learnRouteVars,
    sessionVars, normalizeVars, tempVars>>

nonSessionVars == <<parseVars, coordVars, detectVars, flowVars, scrubVars, learnVars,
    extractVars, normalizeVars, tempVars>>

nonNormalizeVars == <<parseVars, coordVars, detectVars, flowVars, scrubVars, learnVars,
    extractVars, sessionVars, tempVars>>

nonTempVars == <<parseVars, coordVars, detectVars, flowVars, scrubVars, learnVars,
    extractVars, sessionVars, normalizeVars>>

----------------------------------------------------------------------------
(* Bounds of the model *)

MaxLines == 3

MaxDocs == 2

MaxReviewed == 2

MaxWords == 3

MaxStatement == 4

MaxGlued == 2

MaxHeaderLines == 3
MaxClock == 2

----------------------------------------------------------------------------
(* Tokens and lines *)

Tok(t, v) == [t |-> t, v |-> v]

Num(cents) == Tok("NUM", cents)

Min(S) == CHOOSE x \in S : \A y \in S : x <= y

Max(S) == CHOOSE x \in S : \A y \in S : x >= y

ContainsTok(line, t) == \E k \in 1..Len(line) : line[k].t = t

RECURSIVE Flatten(_)
Flatten(ls) == IF ls = <<>> THEN <<>> ELSE Head(ls) \o Flatten(Tail(ls))

(* The lines a text is drawn from.  Money: 1,200.00 is 120000. *)
LineOpening    == <<Tok("OPENING", 0), Tok("DOLLAR", 0), Num(120000)>>
LineOpeningLc  == <<Tok("opening", 0), Num(123456)>>
LinePurchase   == <<Tok("DATE_CIBC", 1103), Tok("PURCHASE", 0), Num(50000), Num(70000)>>
LineDeposit    == <<Tok("DATE_CIBC", 1104), Tok("DEPOSIT", 0), Num(80000), Num(150000)>>
LinePurchaseLo == <<Tok("DATE_CIBC", 1105), Tok("PURCHASE", 0), Num(50000), Num(20000)>>
LineInterac    == <<Tok("DATE_RBC", 1027), Tok("INTERAC", 0), Num(50000), Num(70000)>>
LineCorrection == <<Tok("DATE_CIBC", 1106), Tok("CORRECTION", 0), Tok("PURCHASE", 0), Num(50000), Num(120000)>>
LineHeader     == <<Tok("DATE_CIBC", 1107), Tok("PURCHASE", 0)>>
LineMerchant   == <<Tok("MERCHANT", 0), Num(50000), Num(70000)>>
LineMalformed  == <<Tok("MON", 11), Tok("MERCHANT", 0)>>
LineReversal   == <<Tok("DATE_CIBC", 1108), Tok("REVERSAL", 0), Num(50000), Num(120000)>>
LinePeriod     == <<Tok("FOR", 0), Tok("DATE_CIBC", 1101), Tok("TO", 0), Tok("DATE_CIBC", 1130), Tok("YEAR", 2026)>>

LineSet == { LineOpening, LineOpeningLc, LinePurchase, LineDeposit, LinePurchaseLo,
             LineInterac, LineCorrection, LineHeader, LineMerchant, LineMalformed,
             LineReversal, LinePeriod }

RECURSIVE SeqsUpTo(_, _)
SeqsUpTo(S, n) ==
    IF n = 0 THEN { <<>> }
    ELSE LET shorter == SeqsUpTo(S, n - 1)
         IN  shorter \cup { Append(s, x) : s \in { q \in shorter : Len(q) = n - 1 }, x \in S }

Texts == SeqsUpTo(LineSet, MaxLines)

Banks == { "cibc", "rbc", "td" }

----------------------------------------------------------------------------
(* parsers/balance-based.js *)

(* text.match(/[\d,]+\.\d{2}/g): the decimal numbers of a piece of text, in order *)
NumbersOf(toks) == SelectSeq(toks, LAMBDA x : x.t \in { "NUM", "GLUED" })

(* n.includes(','): a formatted number carries a thousands separator from 1,000.00
   on; a GLUED number is a run of digits the text extraction glued together (a store
   code and an amount, "87110.71") and carries none *)
HasComma(n) == n.t = "NUM" /\ n.v >= 1000 * 100

(* /(?:Your\s+)?[Oo]pening balance[^\$]*\$?([\d,]+\.\d{2})/i tried at the label at p:
   [^\$]* is greedy and runs to the first "$" (or the end of the text); when a
   number follows that "$" it is captured whole, otherwise the expression backtracks
   into the run and the first position that matches is the last integer digit of the
   run's last number, so the capture is that number's d.dd tail. *)
OpeningTry(toks, p) ==
    LET dollars == { k \in (p + 1)..Len(toks) : toks[k].t = "DOLLAR" }
        d       == IF dollars = {} THEN Len(toks) + 1 ELSE Min(dollars)
        runNums == { k \in (p + 1)..(d - 1) : toks[k].t = "NUM" }
    IN  IF d < Len(toks) /\ toks[d + 1].t = "NUM" THEN << toks[d + 1].v >>
        ELSE IF runNums # {} THEN << toks[Max(runNums)].v % 1000 >>
        ELSE <<>>

OpeningMatch(text) ==
    LET toks == Flatten(text)
        P    == { p \in 1..Len(toks) : /\ toks[p].t \in { "OPENING", "opening" }
                                       /\ OpeningTry(toks, p) # <<>> }
    IN  IF P = {} THEN <<>> ELSE OpeningTry(toks, Min(P))

parseAccountSummary(text) == OpeningMatch(text)

(* convertToISO(dateStr, year), dateStr split into its parts <<month, day>>: the date
   as yyyymmdd in a one-element sequence; parts[1].padStart throws a TypeError when
   the date string has no second part, and <<>> stands for that throw *)
convertToISO(parts, yr) ==
    IF Len(parts) < 2 THEN <<>> ELSE << yr * 10000 + parts[1] * 100 + parts[2] >>

DefaultYear == 2025

(* parseStatementPeriod(text, bank): <<"null">>, <<"throw">> or <<"ok", start, end>>.
   CIBC /(?:For\s+)?([A-Z][a-z]{2}\s+\d+)\s+to\s+([A-Z][a-z]{2}\s+\d+),\s+(\d{4})/ gives
   one year to both dates; RBC /From\s+(..),\s+(\d{4})\s+to\s+(..),\s+(\d{4})/ gives each
   date its own. *)
parseStatementPeriod(text, bk) ==
    LET toks == Flatten(text)
        Is(p, kinds) == /\ p + Len(kinds) - 1 <= Len(toks)
                        /\ \A j \in 1..Len(kinds) : toks[p + j - 1].t = kinds[j]
        PC == { p \in 1..Len(toks) : Is(p, << "DATE_CIBC", "TO", "DATE_CIBC", "YEAR" >>) }
        PR == { p \in 1..Len(toks) :
                    Is(p, << "FROM", "DATE_LONG", "YEAR", "TO", "DATE_LONG", "YEAR" >>) }
        Parts(tok) == << tok.v \div 100, tok.v % 100 >>
    IN  IF bk = "cibc" /\ PC # {}
        THEN LET p     == Min(PC)
                 start == convertToISO(Parts(toks[p]), toks[p + 3].v)
                 end   == convertToISO(Parts(toks[p + 2]), toks[p + 3].v)
             IN  IF start = <<>> \/ end = <<>> THEN << "throw" >>
                 ELSE << "ok", start[1], end[1] >>
        ELSE IF bk = "rbc" /\ PR # {}
        THEN LET p     == Min(PR)
                 start == convertToISO(Parts(toks[p + 1]), toks[p + 2].v)
                 end   == convertToISO(Parts(toks[p + 4]), toks[p + 5].v)
             IN  IF start = <<>> \/ end = <<>> THEN << "throw" >>
                 ELSE << "ok", start[1], end[1] >>
        ELSE << "null" >>

(* const year = period ? period.start_date.split('-')[0] : '2025' *)
YearOf(p) == IF p[1] = "ok" THEN p[2] \div 10000 ELSE DefaultYear

(* the skip list of parseTransactions: an empty line, or a header / junk line *)
BalanceIsJunk(line) ==
    \/ line = <<>>
    \/ ContainsTok(line, "JUNK")
    \/ ContainsTok(line, "OPENING")

(* mutant: the day is optional in the date expression, so a month standing alone
   is taken for a date *)
BalanceDateParts_DayOptional(line, bk) ==
    IF line = <<>> THEN <<>>
    ELSE IF bk = "cibc" /\ line[1].t = "DATE_CIBC" THEN << line[1].v \div 100, line[1].v % 100 >>
    ELSE IF bk = "rbc" /\ line[1].t = "DATE_RBC" THEN << line[1].v \div 100, line[1].v % 100 >>
    ELSE IF bk = "cibc" /\ line[1].t = "MON" THEN << line[1].v >>
    ELSE <<>>

(* the date at the start of the line, as the parts given to convertToISO *)
BalanceDateParts(line, bk) ==
    IF line = <<>> THEN <<>>
    ELSE IF bk = "cibc" /\ line[1].t = "DATE_CIBC" THEN << line[1].v \div 100, line[1].v % 100 >>
    ELSE IF bk = "rbc" /\ line[1].t = "DATE_RBC" THEN << line[1].v \div 100, line[1].v % 100 >>
    ELSE <<>>

BalanceIsTransaction(line) ==
    \E k \in 1..Len(line) :
        line[k].t \in { "PURCHASE", "REVERSAL", "INTL", "ETRANSFER", "ETRANSFER_SENT",
                        "PREAUTH", "DEPOSIT", "TRANSFER", "SERVICE", "INTERAC",
                        "ONLINE", "TELEPHONE", "MISC", "FEE" }

(* allLines.slice(currentIndex, currentIndex + 3).join(' ') *)
SearchText(allLines, currentIndex) ==
    Flatten(SubSeq(allLines, currentIndex, Min({ currentIndex + 2, Len(allLines) })))

(* the rightmost number with a comma, or else the largest number *)
PickBalance(allNumbers) ==
    LET withComma == { k \in 1..Len(allNumbers) : HasComma(allNumbers[k]) }
    IN  IF withComma # {} THEN allNumbers[Max(withComma)].v
        ELSE Max({ allNumbers[k].v : k \in 1..Len(allNumbers) })

(* mutant: the amount is read from the line instead of the balance change *)
BalanceParseTransactionLine_ReadsAmount(line, date, allLines, currentIndex, prevBalance) ==
    IF ContainsTok(line, "CORRECTION") \/ ~BalanceIsTransaction(line) THEN <<>>
    ELSE LET allNumbers == NumbersOf(SearchText(allLines, currentIndex))
         IN  IF Len(allNumbers) = 0 \/ prevBalance = <<>> THEN <<>>
             ELSE << [ date    |-> date,
                       type    |-> "debit",
                       amount  |-> allNumbers[1].v,
                       balance |-> PickBalance(allNumbers) ] >>

(* mutant: CORRECTION lines are not skipped *)
BalanceParseTransactionLine_KeepsCorrection(line, date, allLines, currentIndex, prevBalance) ==
    IF ~BalanceIsTransaction(line) THEN <<>>
    ELSE LET allNumbers == NumbersOf(SearchText(allLines, currentIndex))
         IN  IF Len(allNumbers) = 0 \/ prevBalance = <<>> THEN <<>>
             ELSE LET currentBalance == PickBalance(allNumbers)
                      amount         == prevBalance[1] - currentBalance
                  IN  << [ date    |-> date,
                           type    |-> IF amount < 0 THEN "credit" ELSE "debit",
                           amount  |-> amount,
                           balance |-> currentBalance ] >>

(* mutant: without a previous balance the amount is computed against a balance of 0 *)
BalanceParseTransactionLine_StartsAtZero(line, date, allLines, currentIndex, prevBalance) ==
    IF Len(line) = 1 /\ NumbersOf(line) # <<>> /\ ~HasComma(line[1]) THEN <<>>
    ELSE IF ContainsTok(line, "CORRECTION") THEN <<>>
    ELSE IF ~BalanceIsTransaction(line) THEN <<>>
    ELSE LET allNumbers == NumbersOf(SearchText(allLines, currentIndex))
         IN  IF Len(allNumbers) = 0 THEN <<>>
             ELSE LET currentBalance == PickBalance(allNumbers)
                      amount         == (IF prevBalance = <<>> THEN 0 ELSE prevBalance[1])
                                            - currentBalance
                  IN  << [ date    |-> date,
                           type    |-> IF amount < 0 THEN "credit" ELSE "debit",
                           amount  |-> amount,
                           balance |-> currentBalance ] >>

BalanceParseTransactionLine(line, date, allLines, currentIndex, prevBalance) ==
    IF Len(line) = 1 /\ NumbersOf(line) # <<>> /\ ~HasComma(line[1]) THEN <<>>
    ELSE IF ContainsTok(line, "CORRECTION") THEN <<>>
    ELSE IF ~BalanceIsTransaction(line) THEN <<>>
    ELSE LET allNumbers == NumbersOf(SearchText(allLines, currentIndex))
         IN  IF Len(allNumbers) = 0 THEN <<>>
             ELSE IF prevBalance = <<>> THEN <<>>
             ELSE LET currentBalance == PickBalance(allNumbers)
                      amount         == prevBalance[1] - currentBalance
                  IN  << [ date    |-> date,
                           type    |-> IF amount < 0 THEN "credit" ELSE "debit",
                           amount  |-> amount,
                           balance |-> currentBalance ] >>

(* parse(): the period, the summary and the year, then parseTransactions up to its loop *)
BalanceStart ==
    /\ parser = "balance"
    /\ pc = "start"
    /\ LET p == parseStatementPeriod(lines, bank)
       IN  IF p[1] = "throw"
           THEN /\ pc' = "threw"
                /\ UNCHANGED <<period, summary, year, previousBalance, idx>>
           ELSE /\ period' = (IF p[1] = "ok" THEN << p[2], p[3] >> ELSE <<>>)
                /\ summary' = parseAccountSummary(lines)
                /\ year' = YearOf(p)
                /\ previousBalance' = OpeningMatch(lines)
                /\ idx' = 1
                /\ pc' = "scan"
    /\ UNCHANGED <<lines, parser, bank, currentDate, transactions, emittedAt>>
    /\ UNCHANGED nonParseVars

(* mutant: the carried balance is advanced by the amount printed on the emitted line
   instead of being set to the balance read for it *)
BalanceStep_CarriesRunningTotal ==
    /\ parser = "balance"
    /\ pc = "scan"
    /\ idx <= Len(lines)
    /\ LET line  == lines[idx]
           parts == BalanceDateParts(line, bank)
           date  == IF parts # <<>> THEN convertToISO(parts, year) ELSE currentDate
       IN  IF BalanceIsJunk(line)
           THEN /\ idx' = idx + 1
                /\ UNCHANGED <<pc, currentDate, previousBalance, transactions, emittedAt>>
           ELSE IF parts # <<>> /\ date = <<>>
           THEN /\ pc' = "threw"
                /\ UNCHANGED <<idx, currentDate, previousBalance, transactions, emittedAt>>
           ELSE IF date = <<>>
           THEN /\ idx' = idx + 1
                /\ UNCHANGED <<pc, currentDate, previousBalance, transactions, emittedAt>>
           ELSE LET tx == BalanceParseTransactionLine(line, date[1], lines, idx, previousBalance)
                IN  /\ currentDate' = date
                    /\ idx' = idx + 1
                    /\ transactions' = transactions \o tx
                    /\ emittedAt' = (IF tx # <<>> THEN Append(emittedAt, idx) ELSE emittedAt)
                    /\ previousBalance' = (IF tx # <<>>
                                           THEN << previousBalance[1] - NumbersOf(line)[1].v >>
                                           ELSE previousBalance)
                    /\ UNCHANGED pc
    /\ UNCHANGED <<lines, parser, bank, summary, period, year>>
    /\ UNCHANGED nonParseVars

(* one iteration of the loop of parseTransactions *)
BalanceStep ==
    /\ parser = "balance"
    /\ pc = "scan"
    /\ idx <= Len(lines)
    /\ LET line  == lines[idx]
           parts == BalanceDateParts(line, bank)
           date  == IF parts # <<>> THEN convertToISO(parts, year) ELSE currentDate
       IN  IF BalanceIsJunk(line)
           THEN /\ idx' = idx + 1
                /\ UNCHANGED <<pc, currentDate, previousBalance, transactions, emittedAt>>
           ELSE IF parts # <<>> /\ date = <<>>
           THEN /\ pc' = "threw"
                /\ UNCHANGED <<idx, currentDate, previousBalance, transactions, emittedAt>>
           ELSE IF date = <<>>
           THEN /\ idx' = idx + 1
                /\ UNCHANGED <<pc, currentDate, previousBalance, transactions, emittedAt>>
           ELSE LET tx == BalanceParseTransactionLine(line, date[1], lines, idx, previousBalance)
                IN  /\ currentDate' = date
                    /\ idx' = idx + 1
                    /\ transactions' = transactions \o tx
                    /\ emittedAt' = (IF tx # <<>> THEN Append(emittedAt, idx) ELSE emittedAt)
                    /\ previousBalance' = (IF tx # <<>> THEN << tx[1].balance >> ELSE previousBalance)
                    /\ UNCHANGED pc
    /\ UNCHANGED <<lines, parser, bank, summary, period, year>>
    /\ UNCHANGED nonParseVars

(* the loop ends and parse() returns { statement_period, summary, transactions } *)
ParseReturn ==
    /\ pc = "scan"
    /\ idx > Len(lines)
    /\ pc' = "done"
    /\ UNCHANGED <<lines, parser, bank, idx, currentDate, previousBalance, summary,
                   period, year, transactions, emittedAt>>
    /\ UNCHANGED nonParseVars

----------------------------------------------------------------------------
(* parsers/cibc.js *)

CibcIsJunk(line) ==
    \/ line = <<>>
    \/ ContainsTok(line, "JUNK")
    \/ ContainsTok(line, "OPENING")

(* /^(Nov|Dec|...)\s+(\d+)/ on the line, as the parts given to convertToISO *)
CibcDateParts(line) ==
    IF line # <<>> /\ line[1].t = "DATE_CIBC"
    THEN << line[1].v \div 100, line[1].v % 100 >>
    ELSE <<>>

(* line.substring(dateMatch[0].length): the date is cut off, the blank after it stays *)
CibcRestOfLine(line) == << Tok("SPACE", 0) >> \o Tail(line)

(* the pattern table, in order: <<kind of text the regex finds, type, isCredit>>.
   /^DEPOSIT$/ has to match the whole line. *)
CibcPatterns ==
    << [ re |-> { "PURCHASE", "REVERSAL" }, type |-> "VISA DEBIT RETAIL PURCHASE",    isCredit |-> FALSE, whole |-> FALSE ],
       [ re |-> { "REVERSAL" },             type |-> "VISA DEBIT PURCHASE REVERSAL",  isCredit |-> TRUE,  whole |-> FALSE ],
       [ re |-> { "INTL" },                 type |-> "INTL VISA DEB RETAIL PURCHASE", isCredit |-> FALSE, whole |-> FALSE ],
       [ re |-> { "ETRANSFER" },            type |-> "E-TRANSFER",                    isCredit |-> TRUE,  whole |-> FALSE ],
       [ re |-> { "PREAUTH" },              type |-> "PREAUTHORIZED DEBIT",           isCredit |-> FALSE, whole |-> FALSE ],
       [ re |-> { "DEPOSIT" },              type |-> "DEPOSIT",                       isCredit |-> TRUE,  whole |-> TRUE  ],
       [ re |-> { "TRANSFER" },             type |-> "INTERNET TRANSFER",             isCredit |-> FALSE, whole |-> FALSE ],
       [ re |-> { "SERVICE" },              type |-> "SERVICE CHARGE",                isCredit |-> FALSE, whole |-> FALSE ] >>

CibcPatternTest(p, line) ==
    IF p.whole THEN Len(line) = 1 /\ line[1].t \in p.re
    ELSE \E k \in 1..Len(line) : line[k].t \in p.re

CibcParseTransactionLine(line, date, allLines, currentIndex) ==
    IF ContainsTok(line, "CORRECTION") THEN <<>>
    ELSE LET hits    == { n \in 1..Len(CibcPatterns) : CibcPatternTest(CibcPatterns[n], line) }
             numbers == NumbersOf(SearchText(allLines, currentIndex))
         IN  IF hits = {} \/ Len(numbers) = 0 THEN <<>>
             ELSE LET pattern == CibcPatterns[Min(hits)]
                      amount  == numbers[1].v
                  IN  << [ date        |-> date,
                           type        |-> IF pattern.isCredit THEN "credit" ELSE "debit",
                           description |-> pattern.type,
                           amount      |-> IF pattern.isCredit THEN amount ELSE 0 - amount ] >>

CibcStart ==
    /\ parser = "cibc"
    /\ pc = "start"
    /\ LET p == parseStatementPeriod(lines, "cibc")
       IN  IF p[1] = "throw"
           THEN /\ pc' = "threw"
                /\ UNCHANGED <<period, summary, year, idx>>
           ELSE /\ period' = (IF p[1] = "ok" THEN << p[2], p[3] >> ELSE <<>>)
                /\ summary' = OpeningMatch(lines)
                /\ year' = YearOf(p)
                /\ idx' = 1
                /\ pc' = "scan"
    /\ UNCHANGED <<lines, parser, bank, currentDate, previousBalance, transactions, emittedAt>>
    /\ UNCHANGED nonParseVars

(* one iteration of the while loop of parseTransactions *)
CibcStep ==
    /\ parser = "cibc"
    /\ pc = "scan"
    /\ idx <= Len(lines)
    /\ LET line  == lines[idx]
           parts == CibcDateParts(line)
           date  == IF parts # <<>> THEN convertToISO(parts, year) ELSE currentDate
       IN  IF CibcIsJunk(line)
           THEN /\ idx' = idx + 1
                /\ UNCHANGED <<pc, currentDate, transactions, emittedAt>>
           ELSE IF parts # <<>> /\ date = <<>>
           THEN /\ pc' = "threw"
                /\ UNCHANGED <<idx, currentDate, transactions, emittedAt>>
           ELSE IF date = <<>>
           THEN /\ idx' = idx + 1
                /\ UNCHANGED <<pc, currentDate, transactions, emittedAt>>
           ELSE LET rest == IF parts # <<>> THEN CibcRestOfLine(line) ELSE line
                    tx   == CibcParseTransactionLine(rest, date[1], lines, idx)
                IN  /\ currentDate' = date
                    /\ idx' = idx + 1
                    /\ transactions' = transactions \o tx
                    /\ emittedAt' = (IF tx # <<>> THEN Append(emittedAt, idx) ELSE emittedAt)
                    /\ UNCHANGED pc
    /\ UNCHANGED <<lines, parser, bank, summary, period, year, previousBalance>>
    /\ UNCHANGED nonParseVars

----------------------------------------------------------------------------
(* the RBC line-scan parser (unnamed/part_005) *)

RbcIsJunk(line) ==
    \/ line = <<>>
    \/ ContainsTok(line, "JUNK")

(* /^(\d{1,2})\s+(Jan|...|Dec)/ on the line, as the parts given to convertToISO *)
RbcDateParts(line) ==
    IF line # <<>> /\ line[1].t = "DATE_RBC"
    THEN << line[1].v \div 100, line[1].v % 100 >>
    ELSE <<>>

(* the pattern table, in order *)
RbcPatterns ==
    << [ re |-> "ETRANSFER_SENT", type |-> "E-Transfer",             isCredit |-> FALSE ],
       [ re |-> "INTERAC",        type |-> "Interac Purchase",       isCredit |-> FALSE ],
       [ re |-> "ONLINE",         type |-> "Online Banking Payment", isCredit |-> FALSE ],
       [ re |-> "TELEPHONE",      type |-> "Telephone Bill Payment", isCredit |-> FALSE ],
       [ re |-> "MISC",           type |-> "Misc Payment",           isCredit |-> TRUE  ],
       [ re |-> "FEE",            type |-> "Monthly Fee",            isCredit |-> FALSE ] >>

(* the number of digits of the integer part of a number *)
RECURSIVE IntDigits(_)
IntDigits(units) == IF units < 10 THEN 1 ELSE 1 + IntDigits(units \div 10)

(* the amount read from the line after the transaction line; 0 when none is *)
RbcAmount(allLines, currentIndex) ==
    IF currentIndex + 1 > Len(allLines) THEN 0
    ELSE LET allNumbers == NumbersOf(allLines[currentIndex + 1])
             n          == Len(allNumbers)
         IN  IF n = 0 THEN 0
             ELSE IF n = 1
             THEN LET len == IntDigits(allNumbers[1].v \div 100)
                  IN  IF len >= 3 /\ len <= 5 /\ ~HasComma(allNumbers[1])
                      THEN allNumbers[1].v % (1000 * 100)
                      ELSE allNumbers[1].v
             ELSE IF n = 2
             THEN IF allNumbers[2].v > 1000 * 100 THEN allNumbers[1].v ELSE allNumbers[2].v
             ELSE allNumbers[n - 1].v

RbcParseTransactionLine(line, date, allLines, currentIndex) ==
    IF Len(line) = 1 /\ NumbersOf(line) # <<>> THEN <<>>
    ELSE LET hits   == { n \in 1..Len(RbcPatterns) : ContainsTok(line, RbcPatterns[n].re) }
             amount == RbcAmount(allLines, currentIndex)
         IN  IF hits = {} \/ ~(amount > 0) THEN <<>>
             ELSE LET pattern == RbcPatterns[Min(hits)]
                  IN  << [ date        |-> date,
                           type        |-> IF pattern.isCredit THEN "credit" ELSE "debit",
                           description |-> pattern.type,
                           amount      |-> IF pattern.isCredit THEN amount ELSE 0 - amount ] >>

RbcStart ==
    /\ parser = "rbc"
    /\ pc = "start"
    /\ LET p == parseStatementPeriod(lines, "rbc")
       IN  IF p[1] = "throw"
           THEN /\ pc' = "threw"
                /\ UNCHANGED <<period, summary, year, idx>>
           ELSE /\ period' = (IF p[1] = "ok" THEN << p[2], p[3] >> ELSE <<>>)
                /\ summary' = OpeningMatch(lines)
                /\ year' = YearOf(p)
                /\ idx' = 1
                /\ pc' = "scan"
    /\ UNCHANGED <<lines, parser, bank, currentDate, previousBalance, transactions, emittedAt>>
    /\ UNCHANGED nonParseVars

(* one iteration of the for loop of parseTransactions *)
RbcStep ==
    /\ parser = "rbc"
    /\ pc = "scan"
    /\ idx <= Len(lines)
    /\ LET line  == lines[idx]
           parts == RbcDateParts(line)
           date  == IF parts # <<>> THEN convertToISO(parts, year) ELSE currentDate
       IN  IF RbcIsJunk(line)
           THEN /\ idx' = idx + 1
                /\ UNCHANGED <<pc, currentDate, transactions, emittedAt>>
           ELSE IF parts # <<>> /\ date = <<>>
           THEN /\ pc' = "threw"
                /\ UNCHANGED <<idx, currentDate, transactions, emittedAt>>
           ELSE IF date = <<>>
           THEN /\ idx' = idx + 1
                /\ UNCHANGED <<pc, currentDate, transactions, emittedAt>>
           ELSE LET rest == IF parts # <<>> THEN Tail(line) ELSE line
                    tx   == RbcParseTransactionLine(rest, date[1], lines, idx)
                IN  /\ currentDate' = date
                    /\ idx' = idx + 1
                    /\ transactions' = transactions \o tx
                    /\ emittedAt' = (IF tx # <<>> THEN Append(emittedAt, idx) ELSE emittedAt)
                    /\ UNCHANGED pc
    /\ UNCHANGED <<lines, parser, bank, summary, period, year, previousBalance>>
    /\ UNCHANGED nonParseVars

----------------------------------------------------------------------------
----------------------------------------------------------------------------
(* POST /api/learn-merchant: the local route (unnamed/part_010), which runs a Python
   script per request, and the remote route (app/api/learn-merchant/route.ts), which
   forwards the request to the Python API.  merchant_dictionary.py and the Python API
   are given by their documented contract. *)

(* the requests being handled at the same time: a route handler is an async function,
   a second request is taken while the first awaits its Python process *)
LearnSlots == {1, 2}

DictKeys == {"uniqlo", "shell"}

NoEntry == [canonical_name |-> "", category |-> "", version |-> 0]

EmptyDictionary == [k \in DictKeys |-> NoEntry]

(* the closed category set; "Uncategorized" is what a record without category holds *)
Categories == {"Shopping", "Uncategorized"}

NoTransaction == [type |-> "null", description |-> "null"]

(* sample transactions: a purchase, a payroll deposit, an e-transfer sent *)
SampleTransactions ==
    { NoTransaction,
      [type |-> "debit", description |-> "purchase"],
      [type |-> "credit", description |-> "payroll"],
      [type |-> "debit", description |-> "e-transfer" ] }

(* the dictionary file before the first request: empty, or pre-populated from a seed *)
SeedDictionaries ==
    { EmptyDictionary,
      [EmptyDictionary EXCEPT !["uniqlo"] =
          [canonical_name |-> "Uniqlo", category |-> "Shopping", version |-> 1]] }

(* request bodies; "" is a missing string, "null" a missing optional field *)
CompleteBodies ==
    [ normalized_merchant : DictKeys,
      canonical_name : {"BP", "Uniqlo"},
      category : {"null", "Shopping", "Bogus"},
      transaction : SampleTransactions ]

NoBody ==
    [normalized_merchant |-> "", canonical_name |-> "", category |-> "null",
     transaction |-> NoTransaction]

LearnBodies ==
    CompleteBodies
      \cup { [b EXCEPT !.normalized_merchant = ""] : b \in {c \in CompleteBodies : c.category = "Shopping" /\ c.canonical_name = "Uniqlo"} }
      \cup { [b EXCEPT !.canonical_name = ""] : b \in {c \in CompleteBodies : c.category = "Shopping" /\ c.normalized_merchant = "uniqlo"} }

NameLen(name) ==
    CASE name = "" -> 0
      [] name = "BP" -> 2
      [] name = "Uniqlo" -> 6

(* DictionaryGuardrails: names under 3 characters are too short *)
MinNameLen == 3

(* the guardrails of learn_from_user_edit, in order: "ok" or the reason of exclusion *)
Guardrail(canonical_name, category, transaction) ==
    IF transaction.type = "credit" THEN "credit_transaction"
    ELSE IF transaction.description = "e-transfer" THEN "excluded_pattern"
    ELSE IF NameLen(canonical_name) < MinNameLen THEN "too_short"
    ELSE IF category # "null" /\ category \notin Categories THEN "invalid_category"
    ELSE "ok"

(* MerchantDictionary.learn_from_user_edit on the dictionary in memory: the guardrails,
   then a new entry of version 1 or the entry updated and its version incremented *)
learn_from_user_edit(dictionary, normalized_merchant, canonical_name, category, transaction) ==
    LET reason == Guardrail(canonical_name, category, transaction)
        old == dictionary[normalized_merchant]
        entry == IF old = NoEntry
                 THEN [canonical_name |-> canonical_name,
                       category |-> IF category = "null" THEN "Uncategorized" ELSE category,
                       version |-> 1]
                 ELSE [canonical_name |-> canonical_name,
                       category |-> IF category = "null" THEN old.category ELSE category,
                       version |-> old.version + 1]
    IN  IF reason # "ok"
        THEN [success |-> FALSE, message |-> reason, dictionary |-> dictionary]
        ELSE [success |-> TRUE,
              message |-> IF old = NoEntry THEN "created" ELSE "updated",
              dictionary |-> [dictionary EXCEPT ![normalized_merchant] = entry]]

(* what reaches learn_from_user_edit of a request body.  part_010 passes the four
   fields on the command line; route.ts destructures three fields and posts
   { normalized_merchant, canonical_name, category: category || 'Uncategorized' } *)
LearnArguments(r, body) ==
    IF r = "local"
    THEN body
    ELSE [body EXCEPT !.category = IF body.category = "null" THEN "Uncategorized"
                                   ELSE body.category,
                      !.transaction = NoTransaction]

NoResult == [success |-> FALSE, message |-> ""]

(* a response: the HTTP status and the JSON body; success is "absent" in { error } *)
NoResponse == [status |-> 0, success |-> "absent", message |-> ""]

LearnRouteIdle ==
    /\ route = "none"
    /\ lBody = <<>>
    /\ lpc = <<>>
    /\ lDict = <<>>
    /\ lResult = <<>>
    /\ lResp = <<>>

LearnIdle == LearnRouteIdle /\ dictFile = EmptyDictionary

----------------------------------------------------------------------------
(* POST /api/extract, the local route (unnamed/part_009): each uploaded PDF is
   extracted by extract-pdfplumber.py, then build_dictionary.py and match_merchants.py
   run on the extracted JSON and on merchant_dictionary.json.  The Python scripts are
   not part of the sources; what they do to the files is taken from their callers. *)

(* an uploaded PDF: whether extract-pdfplumber.py can extract it, and the merchant of
   its transactions *)
Documents == [readable : BOOLEAN, merchant : DictKeys]

Uploads == SeqsUpTo(Documents, MaxDocs)

(* the JSON extract-pdfplumber.py writes: the transactions, without categories *)
ExtractedData(doc) == [merchant |-> doc.merchant, category |-> "null"]

NoData == [merchant |-> "", category |-> "null"]

(* build_dictionary.py <extracted json> <dictionary>: the merchants of the extracted
   transactions that the dictionary lacks are added to it *)
build_dictionary(data, dictionary) ==
    IF dictionary[data.merchant] # NoEntry
    THEN dictionary
    ELSE [dictionary EXCEPT ![data.merchant] =
             [canonical_name |-> data.merchant, category |-> "Uncategorized", version |-> 1]]

(* match_merchants.py <in> <out> <dictionary>: each transaction takes the category of
   its merchant's dictionary entry *)
match_merchants(data, dictionary) ==
    IF dictionary[data.merchant] = NoEntry
    THEN data
    ELSE [data EXCEPT !.category = dictionary[data.merchant].category]

NoExtractResponse == [status |-> 0, results |-> <<>>]

ExtractIdle ==
    /\ eFiles = <<>>
    /\ epc = "idle"
    /\ eIdx = 0
    /\ eTemp = {}
    /\ eParsed = NoData
    /\ eJson = NoData
    /\ eResults = <<>>
    /\ eFallback = {}
    /\ eResp = NoExtractResponse

----------------------------------------------------------------------------
(* The browser session: the upload page (unnamed/part_011) runs the pipeline and stores
   its results in localStorage (unnamed/part_007), the review page edits the
   low-confidence transactions, the insights page shows the stored report. *)

ReviewKeys == {"uniqlo rideau", "shell"}

(* InsightsEngine: a transaction contributes to the spend aggregates when its signed
   amount is negative or its declared type is debit *)
ContributesToSpend(t) == t.amount < 0 \/ t.type = "debit"

(* a scored transaction; id stands for its date and description; "" is no category; a
   debit of 45.99 or a credit of 3,000.00, debits carrying negative amounts *)
ScoredTransaction(id) ==
    { [ b EXCEPT !.amount = IF b.type = "debit" THEN 0 - 4599 ELSE 300000 ] :
        b \in [ id : {id},
                normalized_merchant : ReviewKeys,
                merchant_display : {"raw"},
                category : {"", "Shopping"},
                type : {"debit", "credit"},
                amount : {0},
                low : BOOLEAN ] }

RECURSIVE ScoredLedgers(_)
(* the ledgers of n transactions *)
ScoredLedgers(n) ==
    IF n = 0 THEN { <<>> }
    ELSE { Append(l, t) : l \in ScoredLedgers(n - 1), t \in ScoredTransaction(n) }

(* what the pipeline returns as scored data: the transactions, and those of low
   confidence once more in low_confidence_transactions *)
ScoredData(ledger) ==
    [ transactions |-> ledger,
      low_confidence_transactions |-> SelectSeq(ledger, LAMBDA t : t.low) ]

PipelineResults == UNION { { ScoredData(l) : l \in ScoredLedgers(n) } : n \in 0..MaxReviewed }

InsightCategories == {"", "Shopping", "Dining"}

(* generate_insights: the spend aggregates of a ledger, as the debit transactions of
   each category and of each merchant *)
summarize(ledger) ==
    LET debits == { i \in 1..Len(ledger) : ContributesToSpend(ledger[i]) }
    IN  [ by_category |-> [ c \in InsightCategories |->
                              { ledger[i].id : i \in { j \in debits : ledger[j].category = c } } ],
          by_merchant |-> [ m \in {"raw", "Uniqlo"} |->
                              { ledger[i].id : i \in { j \in debits : ledger[j].merchant_display = m } } ] ]

(* editedMerchant.toLowerCase().replace(/[^a-z0-9\s]/g, '').trim() *)
NormalizeEdited(editedMerchant) ==
    CASE editedMerchant = "" -> ""
      [] editedMerchant = "Uniqlo" -> "uniqlo"

(* a || b on strings *)
OrElse(a, b) == IF a # "" THEN a ELSE b

(* seq.find(...) over the positions S that satisfy the test: <<>> when none *)
First(seq, S) ==
    IF S = {} THEN <<>> ELSE << seq[CHOOSE i \in S : \A j \in S : i <= j] >>

(* lowConfidence.find(txn => key of txn === key) *)
FindByKey(seq, key) ==
    First(seq, { i \in 1..Len(seq) : seq[i].normalized_merchant = key })

(* lowConfidence.find(lc => key of lc === key of txn &&
                           lc.merchant_display !== txn.merchant_display) *)
FindEdited(seq, txn) ==
    First(seq, { i \in 1..Len(seq) :
                   /\ seq[i].normalized_merchant = txn.normalized_merchant
                   /\ seq[i].merchant_display # txn.merchant_display })

(* the body handleSaveEdit posts to /api/learn-merchant; sample is <<>> or
   <<sampleTransaction>>, an absent category or transaction is "" or <<>> *)
LearnRequest(normalizedMerchant, editedMerchant, editedCategory, sample) ==
    [ normalized_merchant |-> normalizedMerchant,
      canonical_name |-> IF editedMerchant # "" THEN editedMerchant
                         ELSE IF sample = <<>> THEN "" ELSE sample[1].merchant_display,
      category |-> editedCategory,
      transaction |-> sample ]

(* the record of a transaction in a list, by its date, description and amount *)
FindSame(seq, txn) ==
    First(seq, { i \in 1..Len(seq) : seq[i].id = txn.id })

SessionIdle ==
    /\ uPage = "none"
    /\ uScored = <<>>
    /\ uInsights = <<>>
    /\ uData = <<>>
    /\ uLow = <<>>
    /\ uShown = <<>>
    /\ uFetch = <<>>

----------------------------------------------------------------------------
(* normalize_merchant: the merchant of a PREAUTHORIZED DEBIT / PAYMENT description.
   The expression is the one quoted from normalize_merchant.py in
   docs/implementation/PREAUTH_EDGE_CASES.md and VALIDATION_GUIDE.md.  A description is
   a sequence of words separated by blanks, [t, v]: t is "PREFIX" for the leading
   transaction kind, "DIGITS" for a word made of digits only, "WORD" otherwise. *)

Word(t, v) == [t |-> t, v |-> v]

Prefixes == { Word("PREFIX", "PREAUTHORIZED DEBIT"), Word("PREFIX", "PREAUTHORIZED PAYMENT"),
              Word("PREFIX", "RETAIL PURCHASE") }

(* reference numbers as the statements print them *)
ReferenceNumbers == { Word("DIGITS", "1005802179"), Word("DIGITS", "999") }

(* the words of merchant names: 24 Hour Fitness, Store 24/7, CIBC Securities *)
MerchantWords == { Word("DIGITS", "24"), Word("WORD", "Hour"), Word("WORD", "24/7"),
                   Word("WORD", "CIBC") }

MerchantNames == SeqsUpTo(MerchantWords, MaxWords) \ { <<>> }

(* a description as printed: the kind, the reference number when there is one, the
   merchant name *)
Description(prefix, reference, merchant) == <<prefix>> \o reference \o merchant

IsPreauthorized(description) ==
    description[1].v \in {"PREAUTHORIZED DEBIT", "PREAUTHORIZED PAYMENT"}

(* re.search(r'preauthorized (?:debit|payment)\s+(?:\d+\s+)?(.+)', description,
   re.IGNORECASE) and description = match.group(1).strip(): after the kind, a word of
   digits followed by a blank and more text is dropped, the rest is the merchant; a
   description without the kind, or with nothing after it, is left as it is *)
ExtractPreauthorized(description) ==
    IF ~IsPreauthorized(description) THEN description
    ELSE LET rest == Tail(description)
         IN  IF rest = <<>> THEN description
             ELSE IF rest[1].t = "DIGITS" /\ Len(rest) > 1 THEN Tail(rest)
             ELSE rest

NormalizeIdle ==
    /\ nPrefix = <<>>
    /\ nReference = <<>>
    /\ nMerchant = <<>>
    /\ npc = "idle"
    /\ nResult = <<>>

----------------------------------------------------------------------------
(* The temporary files of the local routes: each route builds the paths of its files
   from Date.now(), writes its input, runs a Python script on it, reads the output of
   the script and unlinks every path of tempFiles before it returns. *)

Requests == {1, 2}

TempKinds == {"extract", "insights", "merge"}

UploadNames == {"a.pdf", "b.pdf"}

MergeSizes == {1, 2}

\* the names of the temporary files of a request, in the order of the Date.now() calls
TempNames(kind, fileName, size) ==
    CASE kind = "extract"  -> << [prefix |-> "upload", suffix |-> fileName],
                                 [prefix |-> "extract", suffix |-> ".json"] >>
      [] kind = "insights" -> << [prefix |-> "statement", suffix |-> ".json"],
                                 [prefix |-> "insights", suffix |-> ".json"] >>
      [] kind = "merge"    -> [i \in 1..size |->
                                 [prefix |-> "statement",
                                  suffix |-> IF i = 1 THEN "_0.json" ELSE "_1.json"]]
                              \o << [prefix |-> "merged", suffix |-> ".json"] >>

TempPath(name, now) == [prefix |-> name.prefix, now |-> now, suffix |-> name.suffix]

PathsOf(files) == { files[i] : i \in 1..Len(files) }

\* writeFile and unlink
WriteFile(disk, path, data) ==
    { f \in disk : f.path # path } \cup { [path |-> path, data |-> data] }

Unlink(disk, paths) == { f \in disk : f.path \notin paths }

OnDisk(disk, path) == \E f \in disk : f.path = path

DataAt(disk, path) == (CHOOSE f \in disk : f.path = path).data

\* the paths the Python script of a request reads, and the one it writes
InputPaths(files) == { files[i] : i \in 1..(Len(files) - 1) }

OutputPath(files) == files[Len(files)]

InFlight(r) == tpc[r] \notin {"idle", "returned"}

TempIdle ==
    /\ tClock = 0
    /\ tKind = [r \in Requests |-> ""]
    /\ tpc = [r \in Requests |-> "idle"]
    /\ tTodo = [r \in Requests |-> <<>>]
    /\ tFiles = [r \in Requests |-> <<>>]
    /\ tDisk = {}
    /\ tResp = [r \in Requests |-> <<>>]

----------------------------------------------------------------------------
(* Statements of withdrawals under 1,000.00, for the balance-based parser: an opening
   balance of 900.00, then one line per entry, "Nov d <kind> <amount> <balance>" with
   the running balance printed.  No number carries a comma and every balance is larger
   than the numbers after it, so the number parseTransactionLine picks for a line is
   the balance printed on it.  A line whose description is none of the transaction
   patterns ("ATM WITHDRAWAL") is one the extractor misses. *)

StatementOpening == 90000

StatementEntries == [ missed : BOOLEAN, amount : { 5000, 10000 } ]

StatementLine(k, entry, balance) ==
    << Tok("DATE_CIBC", 1100 + k), Tok(IF entry.missed THEN "ATM" ELSE "PURCHASE", 0),
       Num(entry.amount), Num(balance) >>

RECURSIVE StatementLines(_, _)
StatementLines(entries, before) ==
    IF entries = <<>> THEN <<>>
    ELSE LET balance == before - Head(entries).amount
         IN  << StatementLine(Len(entries), Head(entries), balance) >>
                 \o StatementLines(Tail(entries), balance)

Statement(entries) ==
    << << Tok("OPENING", 0), Tok("DOLLAR", 0), Num(StatementOpening) >> >>
        \o StatementLines(entries, StatementOpening)

Statements == { Statement(e) : e \in SeqsUpTo(StatementEntries, MaxStatement) }

----------------------------------------------------------------------------
(* RBC texts whose amounts the text extraction glued to the store code: a transaction
   line "27 Oct <kind>" and after it the merchant line with one decimal number.  The
   numbers are the three of the comment in parseTransactionLine, "873.98", "87110.71"
   and "74613.56", and "2.26", which has no store code in front. *)

GluedNumbers == { 87398, 8711071, 7461356, 226 }

GluedPurchase(kind, v) ==
    << << Tok("DATE_RBC", 1027), Tok(kind, 0) >>, << Tok("MERCHANT", 0), Tok("GLUED", v) >> >>

GluedPurchases == { GluedPurchase(k, v) : k \in { "INTERAC", "ONLINE" }, v \in GluedNumbers }

GluedTexts == { Flatten(t) : t \in SeqsUpTo(GluedPurchases, MaxGlued) }

(* what the comment of the code states the heuristic extracts:
   "873.98" -> "3.98", "87110.71" -> "10.71", "74613.56" -> "13.56" *)
StatedAmount(v) ==
    CASE v = 87398 -> 398
      [] v = 8711071 -> 1071
      [] v = 7461356 -> 1356

----------------------------------------------------------------------------
(* RBC statements with their period line, "From <Month d>, <yyyy> to <Month d>, <yyyy>":
   one period inside a year (November 1 to November 30, 2025) and one across the year
   boundary (December 15, 2025 to January 14, 2026).  The transaction lines,
   "<d> <Mon> <kind> <amount> <balance>", are of days of the period, in the order of
   the calendar, each a withdrawal of 100.00 from an opening balance of 900.00. *)

StatementPeriods ==
    { [ from |-> 1101, fromYear |-> 2025, to |-> 1130, toYear |-> 2025, days |-> << 1103, 1117 >> ],
      [ from |-> 1215, fromYear |-> 2025, to |-> 114,  toYear |-> 2026, days |-> << 1220, 105 >> ] }

PeriodLine(p) ==
    << Tok("FROM", 0), Tok("DATE_LONG", p.from), Tok("YEAR", p.fromYear),
       Tok("TO", 0), Tok("DATE_LONG", p.to), Tok("YEAR", p.toYear) >>

(* the transaction lines of a statement whose k-th transaction is of day
   p.days[picks[k]] *)
PeriodLines(p, picks) ==
    [ k \in 1..Len(picks) |->
        << Tok("DATE_RBC", p.days[picks[k]]), Tok("INTERAC", 0),
           Num(10000), Num(StatementOpening - 10000 * k) >> ]

PeriodStatement(p, picks) ==
    << PeriodLine(p), << Tok("OPENING", 0), Tok("DOLLAR", 0), Num(StatementOpening) >> >>
        \o PeriodLines(p, picks)

PeriodStatements ==
    { PeriodStatement(p, picks) :
        p \in StatementPeriods,
        picks \in { q \in SeqsUpTo({ 1, 2 }, MaxStatement) :
                      \A k \in 1..(Len(q) - 1) : q[k] <= q[k + 1] } }

----------------------------------------------------------------------------
(* The runs of the extractors: the text and, for the balance-based parser, the issuer tag *)

Runs == { <<"balance", b>> : b \in Banks } \cup { <<"cibc", "cibc">>, <<"rbc", "rbc">> }

ParseIdle ==
    /\ lines = <<>>
    /\ parser = "none"
    /\ bank = "none"
    /\ pc = "idle"
    /\ idx = 0
    /\ currentDate = <<>>
    /\ previousBalance = <<>>
    /\ summary = <<>>
    /\ period = <<>>
    /\ year = 0
    /\ transactions = <<>>
    /\ emittedAt = <<>>

CoordIdle ==
    /\ rows = <<>>
    /\ cpc = "idle"
    /\ dataRows = <<>>
    /\ cIdx = 0
    /\ cDate = <<>>
    /\ cDescription = <<>>
    /\ cTransactions = <<>>
    /\ cAt = <<>>

DetectIdle ==
    /\ dText = <<>>
    /\ dpc = "idle"
    /\ dResult = ""

ScrubIdle ==
    /\ sBank = "none"
    /\ sInput = <<>>
    /\ sText = <<>>
    /\ sRule = 0
    /\ spc = "idle"

FlowIdle ==
    /\ fForm = <<>>
    /\ fTxn = <<>>
    /\ fpc = "idle"
    /\ fNet = <<>>
    /\ fStatus = 0
    /\ fShown = <<>>

Init ==
    /\ lines \in Texts
    /\ \E r \in Runs : parser = r[1] /\ bank = r[2]
    /\ pc = "start"
    /\ idx = 0
    /\ currentDate = <<>>
    /\ previousBalance = <<>>
    /\ summary = <<>>
    /\ period = <<>>
    /\ year = 0
    /\ transactions = <<>>
    /\ emittedAt = <<>>
    /\ CoordIdle
    /\ DetectIdle
    /\ FlowIdle
    /\ ScrubIdle
    /\ LearnIdle
    /\ ExtractIdle
    /\ SessionIdle
    /\ NormalizeIdle
    /\ TempIdle

Next ==
    \/ BalanceStart \/ BalanceStep
    \/ CibcStart \/ CibcStep
    \/ RbcStart \/ RbcStep
    \/ ParseReturn

Spec == Init /\ [][Next]_vars

----------------------------------------------------------------------------
(* the coordinate-based table extractor (unnamed/part_001).  An item is a piece of
   text at a horizontal position; x is twice the PDF coordinate, so that the half
   units of the column positions are integers. *)

MaxRows == 3

Item(x, t, v) == [x |-> x, text |-> Tok(t, v)]

(* the column positions detectColumns falls back to: 3, 6.5, 21, 26.5, 33 *)
DefaultColumns ==
    [date |-> 6, description |-> 13, withdrawals |-> 42, deposits |-> 53, balance |-> 66]

RowWithdrawal == << Item(6, "DATE_CIBC", 1103), Item(13, "WORD", 0), Item(42, "NUM", 50000), Item(66, "NUM", 70000) >>
RowDeposit    == << Item(6, "DATE_CIBC", 1104), Item(13, "WORD", 0), Item(53, "NUM", 80000), Item(66, "NUM", 150000) >>
RowBalance    == << Item(6, "DATE_CIBC", 1101), Item(13, "WORD", 0), Item(66, "NUM", 120000) >>
RowDateOnly   == << Item(6, "DATE_CIBC", 1105), Item(13, "WORD", 0) >>
RowText       == << Item(13, "WORD", 0) >>
RowAmount     == << Item(42, "NUM", 50000) >>
RowHeader     == << Item(6, "HEADER", 0), Item(13, "WORD", 0), Item(66, "WORD", 0) >>

RowSet == { RowWithdrawal, RowDeposit, RowBalance, RowDateOnly, RowText, RowAmount, RowHeader }

(* groupByRows gives the rows top to bottom: the i-th row of the page lies at y0 + i *)
RowsAt(y0, rs) == [ i \in 1..Len(rs) |-> [ y |-> y0 + i, items |-> rs[i] ] ]

assignToColumns(row, columns) ==
    LET In(lo, hi) == SelectSeq(row.items, LAMBDA it : lo <= it.x /\ it.x < hi)
        Texts_(its) == [ k \in 1..Len(its) |-> its[k].text ]
    IN  [ date        |-> Texts_(In(0, columns.description - 4)),
          description |-> Texts_(In(columns.description - 4, columns.withdrawals - 4)),
          withdrawals |-> Texts_(In(columns.withdrawals - 4, columns.deposits - 4)),
          deposits    |-> Texts_(In(columns.deposits - 4, columns.balance - 4)),
          balance     |-> Texts_(In(columns.balance - 4, 1000)) ]

(* parseAmount(text): null (<<>>) for an empty text or one parseFloat reads no number
   from; the texts of a column hold one piece here *)
parseAmount(text) ==
    IF text = <<>> THEN <<>>
    ELSE IF text[1].t = "NUM" THEN << text[1].v >>
    ELSE <<>>

(* JavaScript truthiness of a parsed amount: neither null nor 0 *)
Truthy(a) == a # <<>> /\ a[1] # 0

(* the filter of parseTransactions: header and footer rows, and the top of the page *)
IsDataRow(row, columns) ==
    LET cols == assignToColumns(row, columns)
        text == cols.date \o cols.description \o cols.withdrawals \o cols.deposits \o cols.balance
    IN  ~ContainsTok(text, "HEADER") /\ row.y > 5

(* the transaction pushed from the amounts of one row *)
CoordTransaction(date, description, cols) ==
    LET withdrawal == parseAmount(cols.withdrawals)
        deposit    == parseAmount(cols.deposits)
        balance    == parseAmount(cols.balance)
        isCredit   == deposit # <<>> /\ deposit[1] > 0
        amount     == IF isCredit THEN deposit[1]
                      ELSE IF Truthy(withdrawal) THEN withdrawal[1] ELSE 0
    IN  [ date        |-> date,
          description |-> description,
          amount      |-> IF isCredit THEN amount ELSE 0 - amount,
          type        |-> IF isCredit THEN "credit" ELSE "debit",
          balance     |-> balance ]

HasAmounts(cols) ==
    \/ Truthy(parseAmount(cols.withdrawals))
    \/ Truthy(parseAmount(cols.deposits))
    \/ Truthy(parseAmount(cols.balance))

IsDateText(text) == Len(text) = 1 /\ text[1].t = "DATE_CIBC"

CoordStart ==
    /\ cpc = "start"
    /\ dataRows' = SelectSeq(rows, LAMBDA r : IsDataRow(r, DefaultColumns))
    /\ cIdx' = 1
    /\ cpc' = "rows"
    /\ UNCHANGED <<rows, cDate, cDescription, cTransactions, cAt>>
    /\ UNCHANGED nonCoordVars

(* one call of the dataRows.forEach callback *)
CoordRow ==
    /\ cpc = "rows"
    /\ cIdx <= Len(dataRows)
    /\ LET cols     == assignToColumns(dataRows[cIdx], DefaultColumns)
           isDate   == IsDateText(cols.date)
           \* a date row first saves the transaction before it, with this row's amounts
           saved    == IF isDate /\ cDate # <<>> /\ cDescription # <<>> /\ HasAmounts(cols)
                       THEN << CoordTransaction(cDate[1], cDescription, cols) >>
                       ELSE <<>>
           date     == IF isDate THEN << cols.date[1].v >> ELSE cDate
           descr    == IF isDate THEN cols.description
                       ELSE cDescription \o cols.description
           tx       == CoordTransaction(date[1], descr, cols)
           pushes   == date # <<>> /\ HasAmounts(cols)
                         /\ (tx.amount # 0 \/ tx.balance # <<>>)
       IN  /\ cDate' = date
           /\ cDescription' = (IF pushes THEN <<>> ELSE descr)
           /\ cTransactions' = cTransactions \o saved \o (IF pushes THEN << tx >> ELSE <<>>)
           /\ cAt' = cAt \o [ k \in 1..Len(saved) |-> cIdx ]
                         \o (IF pushes THEN << cIdx >> ELSE <<>>)
           /\ cIdx' = cIdx + 1
    /\ UNCHANGED <<rows, cpc, dataRows>>
    /\ UNCHANGED nonCoordVars

CoordReturn ==
    /\ cpc = "rows"
    /\ cIdx > Len(dataRows)
    /\ cpc' = "done"
    /\ UNCHANGED <<rows, dataRows, cIdx, cDate, cDescription, cTransactions, cAt>>
    /\ UNCHANGED nonCoordVars

InitCoord ==
    /\ ParseIdle
    /\ \E rs \in SeqsUpTo(RowSet, MaxRows), y0 \in { 4, 6 } : rows = RowsAt(y0, rs)
    /\ cpc = "start"
    /\ dataRows = <<>>
    /\ cIdx = 0
    /\ cDate = <<>>
    /\ cDescription = <<>>
    /\ cTransactions = <<>>
    /\ cAt = <<>>
    /\ DetectIdle
    /\ FlowIdle
    /\ ScrubIdle
    /\ LearnIdle
    /\ ExtractIdle
    /\ SessionIdle
    /\ NormalizeIdle
    /\ TempIdle

NextCoord == CoordStart \/ CoordRow \/ CoordReturn

SpecCoord == InitCoord /\ [][NextCoord]_vars

----------------------------------------------------------------------------
(* the steps of POST /api/learn-merchant *)

(* POST up to the exec / fetch call: the body is read and the required fields checked *)
LearnPost(p) ==
    /\ lpc[p] = "idle"
    /\ \E body \in LearnBodies :
        /\ lBody' = [lBody EXCEPT ![p] = body]
        /\ IF body.normalized_merchant = "" \/ body.canonical_name = ""
           THEN /\ lpc' = [lpc EXCEPT ![p] = "done"]
                /\ lResp' = [lResp EXCEPT ![p] =
                       [status |-> 400, success |-> "absent", message |-> "Missing required fields"]]
           ELSE /\ lpc' = [lpc EXCEPT ![p] = "load"]
                /\ lResp' = [lResp EXCEPT ![p] = NoResponse]
    /\ UNCHANGED <<route, dictFile, lDict, lResult>>
    /\ UNCHANGED nonLearnVars

(* dictionary = MerchantDictionary('merchant_dictionary.json') *)
PyLoad(p) ==
    /\ lpc[p] = "load"
    /\ lDict' = [lDict EXCEPT ![p] = dictFile]
    /\ lpc' = [lpc EXCEPT ![p] = "learn"]
    /\ UNCHANGED <<route, dictFile, lBody, lResult, lResp>>
    /\ UNCHANGED nonLearnVars

(* success, message = dictionary.learn_from_user_edit(...) *)
PyLearn(p) ==
    /\ lpc[p] = "learn"
    /\ LET a == LearnArguments(route, lBody[p])
           r == learn_from_user_edit(lDict[p], a.normalized_merchant, a.canonical_name,
                                     a.category, a.transaction)
       IN  /\ lDict' = [lDict EXCEPT ![p] = r.dictionary]
           /\ lResult' = [lResult EXCEPT ![p] = [success |-> r.success, message |-> r.message]]
    /\ lpc' = [lpc EXCEPT ![p] = "save"]
    /\ UNCHANGED <<route, dictFile, lBody, lResp>>
    /\ UNCHANGED nonLearnVars

(* mutant: the dictionary is saved whatever learn_from_user_edit returned *)
PySave_Always(p) ==
    /\ lpc[p] = "save"
    /\ dictFile' = lDict[p]
    /\ lpc' = [lpc EXCEPT ![p] = "respond"]
    /\ UNCHANGED <<route, lBody, lDict, lResult, lResp>>
    /\ UNCHANGED nonLearnVars

(* if success: dictionary.save() *)
PySave(p) ==
    /\ lpc[p] = "save"
    /\ dictFile' = IF lResult[p].success THEN lDict[p] ELSE dictFile
    /\ lpc' = [lpc EXCEPT ![p] = "respond"]
    /\ UNCHANGED <<route, lBody, lDict, lResult, lResp>>
    /\ UNCHANGED nonLearnVars

(* the result printed by the script comes back and the route answers.  part_010
   answers { success, message } with status 200 or 400.  route.ts passes the body of
   the Python API on when its status is ok and answers 500 { error } otherwise; the
   API answers an accepted request with 200 and a rejected one with 200 or 400. *)
LearnRespond(p) ==
    /\ lpc[p] = "respond"
    /\ \E apiStatus \in {200, 400} :
        /\ lResult[p].success => apiStatus = 200
        /\ route = "local" => apiStatus = IF lResult[p].success THEN 200 ELSE 400
        /\ lResp' = [lResp EXCEPT ![p] =
               IF route = "remote" /\ apiStatus # 200
               THEN [status |-> 500, success |-> "absent", message |-> lResult[p].message]
               ELSE [status |-> apiStatus,
                     success |-> IF lResult[p].success THEN "true" ELSE "false",
                     message |-> lResult[p].message]]
    /\ lpc' = [lpc EXCEPT ![p] = "done"]
    /\ UNCHANGED <<route, dictFile, lBody, lDict, lResult>>
    /\ UNCHANGED nonLearnVars

(* execAsync rejects (the 10 second timeout ends the process, or the command fails) or
   fetch throws: the catch block answers 500 { error } *)
LearnError(p) ==
    /\ lpc[p] \in {"load", "learn", "save"}
    /\ lResp' = [lResp EXCEPT ![p] =
           [status |-> 500, success |-> "absent", message |-> "error"]]
    /\ lpc' = [lpc EXCEPT ![p] = "done"]
    /\ UNCHANGED <<route, dictFile, lBody, lDict, lResult>>
    /\ UNCHANGED nonLearnVars

InitLearn ==
    /\ route \in {"local", "remote"}
    /\ dictFile \in SeedDictionaries
    /\ lBody = [p \in LearnSlots |-> NoBody]
    /\ lpc = [p \in LearnSlots |-> "idle"]
    /\ lDict = [p \in LearnSlots |-> EmptyDictionary]
    /\ lResult = [p \in LearnSlots |-> NoResult]
    /\ lResp = [p \in LearnSlots |-> NoResponse]
    /\ ExtractIdle
    /\ SessionIdle
    /\ NormalizeIdle
    /\ TempIdle
    /\ ParseIdle
    /\ CoordIdle
    /\ DetectIdle
    /\ FlowIdle
    /\ ScrubIdle

NextLearn ==
    \E p \in LearnSlots :
        \/ LearnPost(p)
        \/ PyLoad(p)
        \/ PyLearn(p)
        \/ PySave(p)
        \/ LearnRespond(p)
        \/ LearnError(p)

SpecLearn == InitLearn /\ [][NextLearn]_vars

----------------------------------------------------------------------------
(* the steps of POST /api/extract (unnamed/part_009) *)

(* the form is read and its PDF files collected; none: 400 { error } *)
ExtractFiles ==
    /\ epc = "start"
    /\ IF Len(eFiles) = 0
       THEN /\ epc' = "done"
            /\ eResp' = [status |-> 400, results |-> <<>>]
            /\ eIdx' = eIdx
       ELSE /\ epc' = "extract"
            /\ eIdx' = 1
            /\ eResp' = eResp
    /\ UNCHANGED <<eFiles, eTemp, eParsed, eJson, eResults, eFallback, dictFile>>
    /\ UNCHANGED nonExtractVars

(* after results.push: the next file of the loop, or the end of the loop *)
AfterPush(pcNext) == IF eIdx < Len(eFiles) THEN pcNext = "extract" ELSE pcNext = "respond"

(* the temp files are written, extract-pdfplumber.py runs and its JSON is read.  When
   the script fails, the catch block throws "Failed to extract <name>" and the outer
   catch deletes the temp files and answers 500 { error } *)
ExtractDocument ==
    /\ epc = "extract"
    /\ IF eFiles[eIdx].readable
       THEN /\ eTemp' = eTemp \cup {eIdx}
            /\ eParsed' = ExtractedData(eFiles[eIdx])
            /\ eJson' = ExtractedData(eFiles[eIdx])
            /\ epc' = "build"
            /\ eResp' = eResp
       ELSE /\ eTemp' = {}
            /\ eParsed' = eParsed
            /\ eJson' = eJson
            /\ epc' = "done"
            /\ eResp' = [status |-> 500, results |-> <<>>]
    /\ UNCHANGED <<eFiles, eIdx, eResults, eFallback, dictFile>>
    /\ UNCHANGED nonExtractVars

(* mutant: a failure of build_dictionary.py is thrown on like a failure of extraction *)
ExtractBuildDictionary_Fatal ==
    /\ epc = "build"
    /\ \E ok \in BOOLEAN :
        IF ok
        THEN /\ dictFile' = build_dictionary(eJson, dictFile)
             /\ epc' = "match"
             /\ UNCHANGED <<eResults, eFallback, eIdx, eTemp, eResp>>
        ELSE /\ dictFile' = dictFile
             /\ epc' = "done"
             /\ eTemp' = {}
             /\ eResp' = [status |-> 500, results |-> <<>>]
             /\ UNCHANGED <<eResults, eFallback, eIdx>>
    /\ UNCHANGED <<eFiles, eParsed, eJson>>
    /\ UNCHANGED nonExtractVars

(* build_dictionary.py runs on the extracted JSON and the dictionary file; when it
   fails, the catch block pushes parsedData *)
ExtractBuildDictionary ==
    /\ epc = "build"
    /\ \E ok \in BOOLEAN :
        IF ok
        THEN /\ dictFile' = build_dictionary(eJson, dictFile)
             /\ epc' = "match"
             /\ UNCHANGED <<eResults, eFallback, eIdx>>
        ELSE /\ dictFile' = dictFile
             /\ eResults' = Append(eResults, eParsed)
             /\ eFallback' = eFallback \cup {eIdx}
             /\ AfterPush(epc')
             /\ eIdx' = IF eIdx < Len(eFiles) THEN eIdx + 1 ELSE eIdx
    /\ UNCHANGED <<eFiles, eTemp, eParsed, eJson, eResp>>
    /\ UNCHANGED nonExtractVars

(* match_merchants.py rewrites the extracted JSON with categories, which is read again
   and pushed; when it fails, the catch block pushes parsedData *)
ExtractMatchMerchants ==
    /\ epc = "match"
    /\ \E ok \in BOOLEAN :
        IF ok
        THEN /\ eJson' = match_merchants(eJson, dictFile)
             /\ eResults' = Append(eResults, eJson')
             /\ eFallback' = eFallback
        ELSE /\ eJson' = eJson
             /\ eResults' = Append(eResults, eParsed)
             /\ eFallback' = eFallback \cup {eIdx}
    /\ AfterPush(epc')
    /\ eIdx' = IF eIdx < Len(eFiles) THEN eIdx + 1 ELSE eIdx
    /\ UNCHANGED <<eFiles, eTemp, eParsed, eResp, dictFile>>
    /\ UNCHANGED nonExtractVars

(* the temp files are deleted and { results } is returned *)
ExtractRespond ==
    /\ epc = "respond"
    /\ eTemp' = {}
    /\ eResp' = [status |-> 200, results |-> eResults]
    /\ epc' = "done"
    /\ UNCHANGED <<eFiles, eIdx, eParsed, eJson, eResults, eFallback, dictFile>>
    /\ UNCHANGED nonExtractVars

InitExtract ==
    /\ eFiles \in Uploads
    /\ epc = "start"
    /\ eIdx = 0
    /\ eTemp = {}
    /\ eParsed = NoData
    /\ eJson = NoData
    /\ eResults = <<>>
    /\ eFallback = {}
    /\ eResp = NoExtractResponse
    /\ dictFile \in SeedDictionaries
    /\ LearnRouteIdle
    /\ SessionIdle
    /\ NormalizeIdle
    /\ TempIdle
    /\ ParseIdle
    /\ CoordIdle
    /\ DetectIdle
    /\ FlowIdle
    /\ ScrubIdle

NextExtract ==
    \/ ExtractFiles
    \/ ExtractDocument
    \/ ExtractBuildDictionary
    \/ ExtractMatchMerchants
    \/ ExtractRespond

SpecExtract == InitExtract /\ [][NextExtract]_vars

----------------------------------------------------------------------------
(* the pages of the browser session *)

(* handleProcess: the session is cleared, processFullPipeline extracts, merges, scores
   and generates the insights of the scored data, the results are stored and the
   review page is opened; when the pipeline throws the error is shown *)
HandleProcess ==
    /\ uPage = "home"
    /\ \/ \E scored \in PipelineResults :
            /\ uScored' = << scored >>
            /\ uInsights' = << summarize(scored.transactions) >>
            /\ uPage' = "review-loading"
       \/ /\ uScored' = <<>>
          /\ uInsights' = <<>>
          /\ uPage' = "home"
    /\ UNCHANGED <<uData, uLow, uShown, uFetch>>
    /\ UNCHANGED nonSessionVars

(* the effect of the review page: the scored data is loaded, the debit transactions of
   low confidence are listed *)
ReviewMount ==
    /\ uPage = "review-loading"
    /\ IF uScored = <<>>
       THEN /\ uPage' = "home"
            /\ UNCHANGED <<uData, uLow>>
       ELSE /\ uData' = uScored
            /\ uLow' = SelectSeq(uScored[1].low_confidence_transactions,
                                 LAMBDA t : t.type = "debit")
            /\ uPage' = "review"
    /\ UNCHANGED <<uScored, uInsights, uShown, uFetch>>
    /\ UNCHANGED nonSessionVars

(* handleSaveEdit(normalizedMerchantKey) with the merchant and category typed in: the
   correction is posted to /api/learn-merchant, whose answer is only logged, and every
   listed transaction of that key takes the edited merchant and category *)
HandleSaveEdit ==
    /\ uPage = "review"
    /\ \E key \in { uLow[i].normalized_merchant : i \in 1..Len(uLow) },
          editedMerchant \in {"", "Uniqlo"}, editedCategory \in {"", "Dining"} :
        /\ ~(editedMerchant = "" /\ editedCategory = "")
        /\ LET sample == FindByKey(uLow, key)
               normalizedMerchant ==
                   IF editedMerchant # "" THEN NormalizeEdited(editedMerchant)
                   ELSE IF sample = <<>> THEN "" ELSE sample[1].normalized_merchant
           IN  /\ uFetch' = << [ normalizedMerchantKey |-> key,
                                  editedMerchant |-> editedMerchant,
                                  body |-> LearnRequest(normalizedMerchant, editedMerchant,
                                                        editedCategory, sample) ] >>
               /\ uLow' = [ i \in 1..Len(uLow) |->
                              IF uLow[i].normalized_merchant = key
                              THEN [ uLow[i] EXCEPT
                                       !.merchant_display = OrElse(editedMerchant, @),
                                       !.normalized_merchant = OrElse(normalizedMerchant, @),
                                       !.category = OrElse(editedCategory, @) ]
                              ELSE uLow[i] ]
    /\ UNCHANGED <<uPage, uScored, uInsights, uData, uShown>>
    /\ UNCHANGED nonSessionVars

(* handleExclude(normalizedMerchant): the transactions of the key leave the list *)
HandleExclude ==
    /\ uPage = "review"
    /\ \E key \in { uLow[i].normalized_merchant : i \in 1..Len(uLow) } :
        uLow' = SelectSeq(uLow, LAMBDA t : t.normalized_merchant # key)
    /\ UNCHANGED <<uPage, uScored, uInsights, uData, uShown, uFetch>>
    /\ UNCHANGED nonSessionVars

(* handleContinue: a transaction of the scored data whose key is still the key of a
   listed transaction with another display name takes that name and key; the list is
   stored as low_confidence_transactions; the insights page is opened *)
HandleContinue ==
    /\ uPage = "review"
    /\ LET updated == [ i \in 1..Len(uData[1].transactions) |->
                          LET t == uData[1].transactions[i]
                              e == FindEdited(uLow, t)
                          IN  IF e # <<>>
                              THEN [ t EXCEPT !.merchant_display = e[1].merchant_display,
                                              !.normalized_merchant = e[1].normalized_merchant ]
                              ELSE t ]
       IN  uScored' = << [ transactions |-> updated,
                           low_confidence_transactions |-> uLow ] >>
    /\ uPage' = "insights-loading"
    /\ UNCHANGED <<uInsights, uData, uLow, uShown, uFetch>>
    /\ UNCHANGED nonSessionVars

(* handleSkip: the insights page is opened, nothing is stored *)
HandleSkip ==
    /\ uPage = "review"
    /\ uPage' = "insights-loading"
    /\ UNCHANGED <<uScored, uInsights, uData, uLow, uShown, uFetch>>
    /\ UNCHANGED nonSessionVars

(* the effect of the insights page: the stored insights are shown *)
InsightsMount ==
    /\ uPage = "insights-loading"
    /\ IF uInsights = <<>>
       THEN uPage' = "home" /\ uShown' = uShown
       ELSE uPage' = "insights" /\ uShown' = uInsights
    /\ UNCHANGED <<uScored, uInsights, uData, uLow, uFetch>>
    /\ UNCHANGED nonSessionVars

InitSession ==
    /\ uPage = "home"
    /\ uScored = <<>>
    /\ uInsights = <<>>
    /\ uData = <<>>
    /\ uLow = <<>>
    /\ uShown = <<>>
    /\ uFetch = <<>>
    /\ ParseIdle
    /\ CoordIdle
    /\ DetectIdle
    /\ FlowIdle
    /\ ScrubIdle
    /\ LearnIdle
    /\ ExtractIdle
    /\ NormalizeIdle
    /\ TempIdle

NextSession ==
    \/ HandleProcess
    \/ ReviewMount
    \/ HandleSaveEdit
    \/ HandleExclude
    \/ HandleContinue
    \/ HandleSkip
    \/ InsightsMount

SpecSession == InitSession /\ [][NextSession]_vars

----------------------------------------------------------------------------
(* one call of the preauthorized step of normalize_merchant *)

NormalizeCall ==
    /\ npc = "start"
    /\ nResult' = ExtractPreauthorized(Description(nPrefix[1], nReference, nMerchant))
    /\ npc' = "done"
    /\ UNCHANGED <<nPrefix, nReference, nMerchant>>
    /\ UNCHANGED nonNormalizeVars

InitNormalize ==
    /\ \E p \in Prefixes : nPrefix = << p >>
    /\ nReference \in { <<>> } \cup { << r >> : r \in ReferenceNumbers }
    /\ nMerchant \in MerchantNames
    /\ npc = "start"
    /\ nResult = <<>>
    /\ ParseIdle
    /\ CoordIdle
    /\ DetectIdle
    /\ FlowIdle
    /\ ScrubIdle
    /\ LearnIdle
    /\ ExtractIdle
    /\ SessionIdle
    /\ TempIdle

NextNormalize == NormalizeCall

SpecNormalize == InitNormalize /\ [][NextNormalize]_vars

----------------------------------------------------------------------------
(* the balance-based parser run on the statements of withdrawals *)

InitReconcile ==
    /\ lines \in Statements
    /\ parser = "balance"
    /\ bank = "cibc"
    /\ pc = "start"
    /\ idx = 0
    /\ currentDate = <<>>
    /\ previousBalance = <<>>
    /\ summary = <<>>
    /\ period = <<>>
    /\ year = 0
    /\ transactions = <<>>
    /\ emittedAt = <<>>
    /\ CoordIdle
    /\ DetectIdle
    /\ FlowIdle
    /\ ScrubIdle
    /\ LearnIdle
    /\ ExtractIdle
    /\ SessionIdle
    /\ NormalizeIdle
    /\ TempIdle

NextReconcile == BalanceStart \/ BalanceStep \/ ParseReturn

SpecReconcile == InitReconcile /\ [][NextReconcile]_vars

----------------------------------------------------------------------------
(* the RBC line-scan parser run on the texts of glued amounts *)

InitRbcAmount ==
    /\ lines \in GluedTexts
    /\ parser = "rbc"
    /\ bank = "rbc"
    /\ pc = "start"
    /\ idx = 0
    /\ currentDate = <<>>
    /\ previousBalance = <<>>
    /\ summary = <<>>
    /\ period = <<>>
    /\ year = 0
    /\ transactions = <<>>
    /\ emittedAt = <<>>
    /\ CoordIdle
    /\ DetectIdle
    /\ FlowIdle
    /\ ScrubIdle
    /\ LearnIdle
    /\ ExtractIdle
    /\ SessionIdle
    /\ NormalizeIdle
    /\ TempIdle

NextRbcAmount == RbcStart \/ RbcStep \/ ParseReturn

SpecRbcAmount == InitRbcAmount /\ [][NextRbcAmount]_vars

----------------------------------------------------------------------------
(* the balance-based parser run on the statements with a period line *)

InitPeriod ==
    /\ lines \in PeriodStatements
    /\ parser = "balance"
    /\ bank = "rbc"
    /\ pc = "start"
    /\ idx = 0
    /\ currentDate = <<>>
    /\ previousBalance = <<>>
    /\ summary = <<>>
    /\ period = <<>>
    /\ year = 0
    /\ transactions = <<>>
    /\ emittedAt = <<>>
    /\ CoordIdle
    /\ DetectIdle
    /\ FlowIdle
    /\ ScrubIdle
    /\ LearnIdle
    /\ ExtractIdle
    /\ SessionIdle
    /\ NormalizeIdle
    /\ TempIdle

NextPeriod == BalanceStart \/ BalanceStep \/ ParseReturn

SpecPeriod == InitPeriod /\ [][NextPeriod]_vars

----------------------------------------------------------------------------
(* Properties of the extractors *)

Abs(x) == IF x < 0 THEN 0 - x ELSE x

EmittedLines == { emittedAt[k] : k \in 1..Len(emittedAt) }

(* the text is a synthetic statement: an opening-balance line "Opening balance $B0",
   then one recognised transaction line per transaction, "date kind |a| B" with
   B = (the balance before) - a *)
IsSyntheticStatement ==
    /\ parser = "balance"
    /\ bank \in { "cibc", "rbc" }
    /\ Len(lines) >= 2
    /\ Len(lines[1]) = 3
    /\ lines[1][1].t = "OPENING" /\ lines[1][2].t = "DOLLAR" /\ lines[1][3].t = "NUM"
    /\ \A i \in 2..Len(lines) :
          LET l    == lines[i]
              prev == IF i = 2 THEN lines[1][3].v ELSE lines[i - 1][4].v
          IN  /\ Len(l) = 4
              /\ l[1].t = (IF bank = "cibc" THEN "DATE_CIBC" ELSE "DATE_RBC")
              /\ BalanceIsTransaction(<< l[2] >>)
              /\ l[3].t = "NUM" /\ l[4].t = "NUM"
              /\ l[3].v = Abs(prev - l[4].v)

(* C1 (as claimed): on a synthetic statement of N transactions the balance-
   reconciliation extractor emits exactly N transactions, the i-th with balance Bi
   and amount B(i-1) - Bi, whatever the signs and the magnitudes. *)
C1_RecoversAllAmounts ==
    (pc = "done" /\ IsSyntheticStatement) =>
        /\ Len(transactions) = Len(lines) - 1
        /\ \A i \in 1..Len(transactions) :
              LET prev == IF i = 1 THEN lines[1][3].v ELSE lines[i][4].v
              IN  /\ transactions[i].balance = lines[i + 1][4].v
                  /\ transactions[i].amount = prev - lines[i + 1][4].v

(* C2: every transaction the balance-reconciliation extractor has emitted has
   amount = (balance of the transaction emitted before it, or the opening balance
   for the first) - its own balance and is a credit exactly when that amount is
   negative; the carried previous balance is the opening balance until a transaction
   is emitted and the balance of the last emitted transaction from then on, so a
   line that yields no transaction leaves it as it was. *)
C2_AmountIsBalanceDelta ==
    (parser = "balance" /\ pc \in { "scan", "done" }) =>
        /\ \A k \in 1..Len(transactions) :
              LET prev == IF k = 1 THEN summary[1] ELSE transactions[k - 1].balance
              IN  /\ transactions[k].amount = prev - transactions[k].balance
                  /\ (transactions[k].type = "credit") <=> (transactions[k].amount < 0)
                  /\ transactions[k].type \in { "credit", "debit" }
        /\ previousBalance = (IF transactions = <<>> THEN summary
                               ELSE << transactions[Len(transactions)].balance >>)

(* C2 witness: a CORRECTION line in date context yielded nothing and the line after
   it was emitted as a credit against the opening balance *)
C2_Witness ==
    /\ parser = "balance" /\ pc = "done"
    /\ Len(lines) = 3 /\ ContainsTok(lines[2], "CORRECTION")
    /\ emittedAt = << 3 >>
    /\ transactions[1].type = "credit"
    /\ transactions[1].amount = summary[1] - transactions[1].balance

(* a line the extractor running would recognise as a reversal / correction entry:
   it is not a skipped header line, carries numbers, and stands in date context *)
IsEntryLine(k, kind) ==
    /\ k \in 1..Len(lines)
    /\ ContainsTok(lines[k], kind)
    /\ ~BalanceIsJunk(lines[k])
    /\ lines[k][1].t = "DATE_CIBC"
    /\ NumbersOf(lines[k]) # <<>>
    /\ \/ parser = "cibc"
       \/ parser = "balance" /\ bank = "cibc" /\ summary # <<>>

(* C3 (as claimed): a correction line produces a transaction of its own *)
C3_CorrectionEmitted ==
    pc = "done" =>
        \A k \in 1..Len(lines) : IsEntryLine(k, "CORRECTION") => k \in EmittedLines

(* C3 (amended): a line containing CORRECTION is skipped by the CIBC line-scan and
   the balance-reconciliation extractors and produces no transaction, while a
   reversal line that is not a correction produces a transaction of its own. *)
C3_CorrectionSkippedReversalEmitted ==
    /\ \A k \in EmittedLines : ~ContainsTok(lines[k], "CORRECTION")
    /\ pc = "done" =>
          \A k \in 1..Len(lines) :
              (IsEntryLine(k, "REVERSAL") /\ ~ContainsTok(lines[k], "CORRECTION"))
                  => k \in EmittedLines

C3_Witness ==
    /\ pc = "done"
    /\ \E k, j \in 1..Len(lines) :
          /\ IsEntryLine(k, "CORRECTION") /\ k \notin EmittedLines
          /\ IsEntryLine(j, "REVERSAL") /\ j \in EmittedLines

(* C5: parse never throws, whatever the text and the issuer tag: it returns after
   the loop has gone over every line, and a line that cannot be parsed does not stop
   a later transaction line from being emitted. *)
C5_NeverThrows ==
    /\ pc # "threw"
    /\ pc = "done" =>
          /\ idx = Len(lines) + 1
          /\ \A k \in 1..Len(lines) :
                (IsEntryLine(k, "PURCHASE") /\ ~ContainsTok(lines[k], "CORRECTION"))
                    => k \in EmittedLines

C5_Witness ==
    /\ pc = "done"
    /\ \E k, j \in 1..Len(lines) :
          /\ k < j
          /\ lines[k] = LineMalformed
          /\ j \in EmittedLines

----------------------------------------------------------------------------
(* detectBank (utils/detectBank.js).  A text is a sequence of chunks, each a run of
   characters of a known length, with one space between neighbours.  The chunks are
   the phrases detectBank looks for and filler that holds none of them. *)

MaxChunks == 3

HeaderLen == 500

Chunk(name, len) == [name |-> name, len |-> len]

ChunkSet ==
    { Chunk("Royal Bank of Canada", 20), Chunk("RBC", 3), Chunk("account statement", 17),
      Chunk("www.rbcroyalbank.com", 20), Chunk("CIBC", 4), Chunk("Account Statement", 17),
      Chunk("TD Canada Trust", 15), Chunk("Scotiabank", 10), Chunk("BMO", 3),
      Chunk("Bank of Montreal", 16), Chunk("filler", 490), Chunk("filler", 500) }

DetectTexts == SeqsUpTo(ChunkSet, MaxChunks)

RECURSIVE ChunkStart(_, _)
(* the index of the first character of chunk i, counted from 0 *)
ChunkStart(text, i) ==
    IF i = 1 THEN 0 ELSE ChunkStart(text, i - 1) + text[i - 1].len + 1

(* text.substring(0, n): the chunks that begin before n, each with the number of its
   characters that are kept *)
Substring0_WholeText(text, n) ==
    [ i \in 1..Len(text) |-> [name |-> text[i].name, kept |-> text[i].len] ]

Substring0(text, n) ==
    LET starts == { i \in 1..Len(text) : ChunkStart(text, i) < n }
    IN  [ i \in 1..Cardinality(starts) |->
            [ name |-> text[i].name,
              kept |-> Min({ text[i].len, n - ChunkStart(text, i) }) ] ]

(* a phrase looked for: the chunks it spans, and how many characters of the last of
   them it needs ('Scotia' is the first 6 characters of 'Scotiabank') *)
Needle(parts, last) == [parts |-> parts, last |-> last]

(* header.includes(needle) *)
Includes(header, needle) ==
    LET k == Len(needle.parts)
    IN  \E i \in 1..Len(header) :
            /\ i + k - 1 <= Len(header)
            /\ \A j \in 1..k : header[i + j - 1].name = needle.parts[j]
            /\ header[i + k - 1].kept >= needle.last

RbcDetection(header) ==
    \/ Includes(header, Needle(<<"Royal Bank of Canada">>, 20))
    \/ (Includes(header, Needle(<<"RBC">>, 3)) /\ Includes(header, Needle(<<"account statement">>, 17)))
    \/ Includes(header, Needle(<<"www.rbcroyalbank.com">>, 20))

CibcDetection(header) ==
    \/ Includes(header, Needle(<<"CIBC", "Account Statement">>, 17))
    \/ (Includes(header, Needle(<<"CIBC">>, 4)) /\ Includes(header, Needle(<<"Account Statement">>, 17)))

TdDetection(header) == Includes(header, Needle(<<"TD Canada Trust">>, 15))

ScotiabankDetection(header) ==
    \/ Includes(header, Needle(<<"Scotiabank">>, 10))
    \/ Includes(header, Needle(<<"Scotiabank">>, 6))

BmoDetection(header) ==
    \/ Includes(header, Needle(<<"BMO">>, 3))
    \/ Includes(header, Needle(<<"Bank of Montreal">>, 16))

detectBank_CibcFirst(text) ==
    LET header == Substring0(text, HeaderLen)
    IN  IF CibcDetection(header) THEN "cibc"
        ELSE IF RbcDetection(header) THEN "rbc"
        ELSE IF TdDetection(header) THEN "td"
        ELSE IF ScotiabankDetection(header) THEN "scotiabank"
        ELSE IF BmoDetection(header) THEN "bmo"
        ELSE "throw"

(* detectBank(text): the tag returned, or "throw" for the Error *)
detectBank(text) ==
    LET header == Substring0(text, HeaderLen)
    IN  IF RbcDetection(header) THEN "rbc"
        ELSE IF CibcDetection(header) THEN "cibc"
        ELSE IF TdDetection(header) THEN "td"
        ELSE IF ScotiabankDetection(header) THEN "scotiabank"
        ELSE IF BmoDetection(header) THEN "bmo"
        ELSE "throw"

DetectCall ==
    /\ dpc = "start"
    /\ LET r == detectBank(dText)
       IN  IF r = "throw"
           THEN dpc' = "threw" /\ dResult' = ""
           ELSE dpc' = "returned" /\ dResult' = r
    /\ UNCHANGED dText
    /\ UNCHANGED nonDetectVars

InitDetect ==
    /\ ParseIdle
    /\ CoordIdle
    /\ dText \in DetectTexts
    /\ dpc = "start"
    /\ dResult = ""
    /\ FlowIdle
    /\ ScrubIdle
    /\ LearnIdle
    /\ ExtractIdle
    /\ SessionIdle
    /\ NormalizeIdle
    /\ TempIdle

NextDetect == DetectCall

SpecDetect == InitDetect /\ [][NextDetect]_vars

----------------------------------------------------------------------------
(* the web application: the extract route (pdf-insights-app/app/api/extract/route.ts)
   and the transaction box of the review page (pdf-insights-app/app/review/page.tsx).
   A piece of content is raw (bytes or text of the statement as uploaded) or
   redacted (output of a scrubber). *)

MaxEntries == 2

Raw(doc) == [origin |-> "raw", doc |-> doc]

Redacted(doc) == [origin |-> "redacted", doc |-> doc]

(* buffer.toString('base64'): an encoding anyone can undo *)
Base64(content) == [encoding |-> "base64", of |-> content]

FormEntries ==
    { [key |-> k, isFile |-> f, value |-> Raw(d)] :
        k \in {"pdf_0", "note"}, f \in BOOLEAN, d \in {1, 2} }

ReviewTransactions ==
    { [description |-> Redacted(1), original_description |-> o, matched |-> m] :
        o \in { <<>>, << Raw(1) >> }, m \in BOOLEAN }

(* the files the route collects from the form data *)
PdfFiles(form) ==
    SelectSeq(form, LAMBDA e : e.key \in {"pdf_0"} /\ e.isFile)

(* POST: 400 without files, else the files are posted to the extraction API *)
ExtractPost ==
    /\ fpc = "start"
    /\ LET files == PdfFiles(fForm)
           filesData == [ i \in 1..Len(files) |-> Base64(files[i].value) ]
       IN  IF files = <<>>
           THEN /\ fStatus' = 400
                /\ fpc' = "responded"
                /\ fNet' = fNet
           ELSE /\ fNet' = fNet \o filesData
                /\ fpc' = "awaiting"
                /\ fStatus' = fStatus
    /\ UNCHANGED <<fForm, fTxn, fShown>>
    /\ UNCHANGED nonFlowVars

(* the API answers: its JSON is returned, or a failure becomes a 500 *)
ExtractResponse ==
    /\ fpc = "awaiting"
    /\ \E ok \in BOOLEAN : fStatus' = (IF ok THEN 200 ELSE 500)
    /\ fpc' = "responded"
    /\ UNCHANGED <<fForm, fTxn, fNet, fShown>>
    /\ UNCHANGED nonFlowVars

(* the review page: original_description || group.description *)
ReviewRender ==
    /\ fpc = "responded"
    /\ fStatus = 200
    /\ fShown' = (IF fTxn.original_description # <<>>
                  THEN fTxn.original_description
                  ELSE << fTxn.description >>)
    /\ fpc' = "rendered"
    /\ UNCHANGED <<fForm, fTxn, fNet, fStatus>>
    /\ UNCHANGED nonFlowVars

InitFlow ==
    /\ ParseIdle
    /\ CoordIdle
    /\ DetectIdle
    /\ fForm \in SeqsUpTo(FormEntries, MaxEntries)
    /\ fTxn \in ReviewTransactions
    /\ fpc = "start"
    /\ fNet = <<>>
    /\ fStatus = 0
    /\ fShown = <<>>
    /\ ScrubIdle
    /\ LearnIdle
    /\ ExtractIdle
    /\ SessionIdle
    /\ NormalizeIdle
    /\ TempIdle

NextFlow == ExtractPost \/ ExtractResponse \/ ReviewRender

SpecFlow == InitFlow /\ [][NextFlow]_vars

----------------------------------------------------------------------------
(* the redaction scrubbers (scrubbers/rbc.js: the RBC scrub and the CIBC scrub).
   A text is the flat sequence of its tokens: NL is a newline, GAP two spaces inside
   a line, and two neighbouring tokens that are neither have one space between them.
   Each token is a run of characters of one shape:
     CAPS         capital letters only                 JOHN, UBER, TRANSACTION
     MIXED        letters, some lower case             John
     DATE         a statement date                     Nov 3, 27 Oct
     NUM          an amount with two decimals          500.00
     DIGITS       digits only                          105075419981
     ACCTNO       an account number                    00776-5295423
     LABEL        a label ending in a colon            Account number:
     ETR, ETSENT  E-TRANSFER, e-Transfer sent
     REF6         six capitals and digits              ABC123
     PURCHTYPE, DASH                                   Contactless Interac purchase, -
     FX           a conversion detail                  45.00 CAD @ 1.3500
     UNIT, STREET, CITYPOSTAL, BRANCHADDR, PHONE, DOCREF, BARCODE
     PH           a placeholder written by a rule      [NAME REDACTED]
     NUMTAIL      the decimals left of a cut amount    .00 *)

MaxScrubLines == 3

NL == Tok("NL", "")

GAP == Tok("GAP", "")

PH(v) == Tok("PH", v)

Caps(w) == Tok("CAPS", w)

RECURSIVE JoinLines(_)
JoinLines(ls) ==
    IF ls = <<>> THEN <<>>
    ELSE IF Len(ls) = 1 THEN ls[1]
    ELSE ls[1] \o << NL >> \o JoinLines(Tail(ls))

CibcScrubLines ==
    { << Caps("JOHN"), Caps("SMITH") >>,
      << Caps("UBER"), Caps("CANADA") >>,
      << Caps("TRANSACTION"), Caps("DETAILS") >>,
      << Tok("LABEL", "Account number:"), Tok("ACCTNO", "00776-5295423") >>,
      << Tok("LABEL", "Branch transit number:"), Tok("DIGITS", "00123") >>,
      << Tok("DATE", "Nov 3"), Caps("VISA"), Caps("DEBIT"), Caps("RETAIL"), Caps("PURCHASE"),
         Tok("NUM", "500.00"), Tok("NUM", "700.00") >>,
      << Tok("DATE", "Nov 4"), Caps("INTERNET"), Caps("BANKING"), Tok("ETR", "E-TRANSFER"),
         Tok("DIGITS", "105075419981") >>,
      << Tok("DIGITS", "1234567890") >>,
      << Tok("FX", "45.00 CAD @ 1.3500") >>,
      << Caps("UBER"), Caps("CANADA"), GAP, Tok("DIGITS", "105075419981") >>,
      << >> }

RbcScrubLines ==
    { << Caps("JOHN"), Caps("SMITH") >>,
      << Caps("UBER"), Caps("CANADA") >>,
      << Caps("TRANSACTION"), Caps("DETAILS") >>,
      << Tok("LABEL", "Your account number:"), Tok("ACCTNO", "00776-5295423") >>,
      << Tok("ACCTNO", "00776-5295423") >>,
      << Tok("DATE", "27 Oct"), Tok("PURCHTYPE", "Contactless Interac purchase"), Tok("DASH", "-"),
         Tok("DIGITS", "1234"), Caps("UBER"), Caps("CANADA"), Tok("NUM", "500.00"), Tok("NUM", "700.00") >>,
      << Tok("ETSENT", "e-Transfer sent"), Tok("MIXED", "John"), Tok("MIXED", "Smith"),
         Tok("REF6", "ABC123"), Tok("NUM", "50.00") >>,
      << Tok("UNIT", "B206") >>,
      << Tok("STREET", "123 MAIN STREET") >>,
      << Tok("CITYPOSTAL", "OTTAWA ON K1V 2T7") >>,
      << Tok("BRANCHADDR", "2600 BANK ST, OTTAWA, ON K1V 2T7") >>,
      << Tok("PHONE", "1-800-769-2511") >>,
      << Tok("DOCREF", "RBPDA0001_123_456") >>,
      << Tok("BARCODE", "*12345678*") >>,
      << >> }

ScrubLines(bk) == IF bk = "rbc" THEN RbcScrubLines ELSE CibcScrubLines

(* the length of the filler text of a statement header: with a line of five characters
   before it, a phrase after it starts at character 477 *)
FillerLen == 470

(* the number of characters of a word or a digit string *)
CharLen(tok) ==
    CASE tok.t = "NL" -> 1
      [] tok.t = "GAP" -> 2
      [] tok.v \in {"JO", "LI"} -> 2
      [] tok.v = "[DOC-REF]" -> 9
      [] tok.v = "[NAME REDACTED]" -> 15
      [] tok.v \in {"Account Statement", "RBPDA0001_123_456"} -> 17
      [] tok.v = "Royal Bank of Canada" -> 20
      [] tok.v = "filler" -> FillerLen
      [] tok.v \in {"JOHN", "UBER", "VISA", "1234", "CIBC"} -> 4
      [] tok.v \in {"SMITH", "DEBIT", "00123"} -> 5
      [] tok.v \in {"CANADA", "RETAIL", "ABC123"} -> 6
      [] tok.v \in {"DETAILS", "BANKING"} -> 7
      [] tok.v \in {"PURCHASE", "INTERNET"} -> 8
      [] tok.v = "1234567890" -> 10
      [] tok.v = "TRANSACTION" -> 11
      [] tok.v = "105075419981" -> 12
      [] OTHER -> 13

IsWs(tok) == tok.t \in {"NL", "GAP"}

RECURSIVE TextLen(_)
(* match.length of a block of words and white space *)
TextLen(text) ==
    IF text = <<>> THEN 0
    ELSE CharLen(text[1]) + TextLen(Tail(text))
         + (IF Len(text) > 1 /\ ~IsWs(text[1]) /\ ~IsWs(text[2]) THEN 1 ELSE 0)

(* ^ before token i and $ after token j, under the m flag *)
AtLineStart(text, i) == i = 1 \/ text[i - 1].t = "NL"

AtLineEnd(text, j) == j = Len(text) \/ text[j + 1].t = "NL"

(* the last index of the run of tokens of the kinds S that begins at i (i - 1: none) *)
RunEnd(text, i, S) ==
    LET bad == { k \in i..Len(text) : text[k].t \notin S }
    IN  IF bad = {} THEN Len(text) ELSE Min(bad) - 1

(* the last token of the line that token i is on *)
LineEnd(text, i) ==
    LET nls == { k \in i..Len(text) : text[k].t = "NL" }
    IN  IF nls = {} THEN Len(text) ELSE Min(nls) - 1

TypeAt(text, i) == IF i >= 1 /\ i <= Len(text) THEN text[i].t ELSE "none"

(* the words of the vocabulary that include one of the keepPatterns *)
CibcKeepWords == {"TRANSACTION", "VISA"}

RbcKeepWords == {"TRANSACTION", "DETAILS"}

HasKeepWord(block, keep) == \E k \in 1..Len(block) : block[k].t = "CAPS" /\ block[k].v \in keep

(* ---- the length of the match of a rule at token i (0: no match there) ---- *)

(* CIBC 1: /^[A-Z][A-Z\s]+$/gm; \s also takes newlines, so the match runs over the
   following lines of capitals and the empty lines up to the last end of line *)
CibcNameMatch(text, i) ==
    IF AtLineStart(text, i) /\ text[i].t = "CAPS"
    THEN LET e == RunEnd(text, i, {"CAPS", "NL", "GAP"})
             ends == { j \in i..e : AtLineEnd(text, j) }
         IN  IF ends = {} THEN 0 ELSE Max(ends) - i + 1
    ELSE 0

(* RBC 3, the full name in capitals: a word of [A-Z], then one or more words of
   [A-Z\-], with \s+ between them, from a line start to an end of line; \s also
   takes newlines, so the match runs over the following lines of capitals *)
RbcNameMatch(text, i) ==
    IF AtLineStart(text, i) /\ text[i].t = "CAPS"
    THEN LET e == RunEnd(text, i, {"CAPS", "NL", "GAP"})
             ends == { j \in (i + 1)..e : text[j].t = "CAPS" /\ AtLineEnd(text, j) }
         IN  IF ends = {} THEN 0 ELSE Max(ends) - i + 1
    ELSE 0

LabelledMatch(text, i, label, kinds) ==
    IF text[i] = Tok("LABEL", label) /\ TypeAt(text, i + 1) \in kinds THEN 2 ELSE 0

(* CIBC 4: /(E-TRANSFER\s+)(\d+)\s*\n\s*([^\n]+)/g: the reference, the newline, any
   empty lines, and the whole of the next line that is not empty *)
CibcETransferMatch(text, i) ==
    IF text[i].t = "ETR" /\ TypeAt(text, i + 1) = "DIGITS" /\ TypeAt(text, i + 2) = "NL"
    THEN LET k == RunEnd(text, i + 2, {"NL", "GAP"}) + 1
         IN  IF k > Len(text) THEN 0 ELSE LineEnd(text, k) - i + 1
    ELSE 0

(* RBC 5: /(e-Transfer sent)\s+([A-Za-z\s]+?)\s+([A-Z0-9]{6})/g: the fewest words
   that are followed by six capitals or digits *)
RbcETransferMatch(text, i) ==
    IF text[i].t = "ETSENT"
    THEN LET e == RunEnd(text, i + 1, {"CAPS", "MIXED", "NL", "GAP"})
             refs == { k \in (i + 2)..(e + 1) :
                         /\ k <= Len(text)
                         /\ \/ text[k].t = "REF6"
                            \/ (text[k].t = "CAPS" /\ CharLen(text[k]) = 6)
                         /\ \E w \in (i + 1)..(k - 1) : ~IsWs(text[w]) }
         IN  IF refs = {} THEN 0 ELSE Min(refs) - i + 1
    ELSE 0

(* CIBC 5: /([A-Z\/\*\s\.]+)\s{2,}(\d{10,})/g.  $1 is put back, so what goes is the
   last two white-space characters before the digits, and the digits; $1 needs one
   character of its class before them *)
CibcMerchantRefMatch(text, i) ==
    LET long(k) == TypeAt(text, k) = "DIGITS" /\ CharLen(text[k]) >= 10
        before == i > 1 /\ text[i - 1].t \in {"CAPS", "ETR", "NL", "GAP"}
    IN  IF text[i].t = "GAP" /\ long(i + 1) /\ before THEN 2
        ELSE IF text[i].t = "NL" /\ TypeAt(text, i + 1) = "NL" /\ long(i + 2) /\ before THEN 3
        ELSE 0

(* CIBC 7: /^\d{10}\s*$/gm: ten digits and the white space after them up to the last
   end of line *)
CibcLongIdMatch(text, i) ==
    IF AtLineStart(text, i) /\ text[i].t = "DIGITS" /\ CharLen(text[i]) = 10
    THEN LET e == RunEnd(text, i + 1, {"NL", "GAP"})
             ends == { j \in i..e : AtLineEnd(text, j) }
         IN  IF ends = {} THEN 0 ELSE Max(ends) - i + 1
    ELSE 0

(* /\n{3,}/g *)
BlankLinesMatch(text, i) ==
    IF text[i].t = "NL" /\ TypeAt(text, i + 1) = "NL" /\ TypeAt(text, i + 2) = "NL"
    THEN RunEnd(text, i, {"NL"}) - i + 1
    ELSE 0

AloneOnLine(text, i, kind) ==
    IF text[i].t = kind /\ AtLineStart(text, i) /\ AtLineEnd(text, i) THEN 1 ELSE 0

(* RBC city and postal code: /^[A-Z\s]+\s+[A-Z]{2}\s+[A-Z]\d[A-Z]\s?\d[A-Z]\d$/gm;
   [A-Z\s]+ starts at the first line start from which only capitals and white space
   lead to the postal code *)
RbcCityPostalMatch(text, i) ==
    IF AtLineStart(text, i)
    THEN LET e == RunEnd(text, i, {"CAPS", "NL", "GAP"})
         IN  IF TypeAt(text, e + 1) = "CITYPOSTAL" /\ AtLineEnd(text, e + 1)
             THEN e + 1 - i + 1 ELSE 0
    ELSE 0

(* RBC 7: /(Contactless Interac purchase|...)\s+-\s+\d{4}/g *)
RbcPurchaseRefMatch(text, i) ==
    IF /\ text[i].t = "PURCHTYPE"
       /\ TypeAt(text, i + 1) = "DASH"
       /\ TypeAt(text, i + 2) = "DIGITS"
       /\ CharLen(text[i + 2]) = 4
    THEN 3 ELSE 0

(* RBC 8: /RBPDA\d+_\d+_\d+[-\s\w]*/g: the code and every character after it that
   is a letter, digit, underscore, hyphen or white space, over line ends too; of an
   amount it takes the digits before the point, and of the account placeholder the
   words before the colon *)
DocRefRun == {"NL", "GAP", "CAPS", "MIXED", "DATE", "ETSENT", "REF6", "PURCHTYPE", "DASH",
              "DIGITS", "PHONE", "UNIT", "DOCREF", "ACCTNO"}

CutByDocRef(text, k) ==
    k <= Len(text) /\ (text[k].t = "NUM" \/ text[k] = PH("Account number: [REDACTED]"))

RbcDocRefMatch(text, i) ==
    IF text[i].t = "DOCREF"
    THEN LET e == RunEnd(text, i + 1, DocRefRun)
         IN  IF CutByDocRef(text, e + 1) THEN e + 1 - i + 1 ELSE e - i + 1
    ELSE 0

Simple(text, i, kind) == IF text[i].t = kind THEN 1 ELSE 0

MatchLen(bk, rule, text, i) ==
    CASE bk = "cibc" /\ rule = "name" -> CibcNameMatch(text, i)
      [] bk = "cibc" /\ rule = "accountNumber" ->
            LabelledMatch(text, i, "Account number:", {"ACCTNO", "DIGITS"})
      [] bk = "cibc" /\ rule = "transitNumber" ->
            LabelledMatch(text, i, "Branch transit number:", {"DIGITS"})
      [] bk = "cibc" /\ rule = "eTransfer" -> CibcETransferMatch(text, i)
      [] bk = "cibc" /\ rule = "merchantRef" -> CibcMerchantRefMatch(text, i)
      [] bk = "cibc" /\ rule = "cadConversion" -> Simple(text, i, "FX")
      [] bk = "cibc" /\ rule = "longId" -> CibcLongIdMatch(text, i)
      [] bk = "rbc" /\ rule = "accountNumber" ->
            LabelledMatch(text, i, "Your account number:", {"ACCTNO"})
      [] bk = "rbc" /\ rule = "standaloneAccount" -> Simple(text, i, "ACCTNO")
      [] bk = "rbc" /\ rule = "name" -> RbcNameMatch(text, i)
      [] bk = "rbc" /\ rule = "unit" -> AloneOnLine(text, i, "UNIT")
      [] bk = "rbc" /\ rule = "street" -> AloneOnLine(text, i, "STREET")
      [] bk = "rbc" /\ rule = "cityPostal" -> RbcCityPostalMatch(text, i)
      [] bk = "rbc" /\ rule = "branchAddress" -> AloneOnLine(text, i, "BRANCHADDR")
      [] bk = "rbc" /\ rule = "eTransfer" -> RbcETransferMatch(text, i)
      [] bk = "rbc" /\ rule = "purchaseRef" -> RbcPurchaseRefMatch(text, i)
      [] bk = "rbc" /\ rule = "docRef" -> RbcDocRefMatch(text, i)
      [] bk = "rbc" /\ rule = "barcode" -> Simple(text, i, "BARCODE")
      [] bk = "rbc" /\ rule = "phone" -> Simple(text, i, "PHONE")
      [] rule = "blankLines" -> BlankLinesMatch(text, i)
      \* RBC 6, /\b[A-Z0-9]{6}\b(?=\d)/g: no text has a word boundary before a digit
      \* that follows a capital or a digit, so the rule never matches
      [] OTHER -> 0

(* the callbacks of the two name rules *)
CibcNameReplace(block) ==
    IF HasKeepWord(block, CibcKeepWords) THEN block ELSE << PH("[NAME REDACTED]") >>

RbcNameReplace(block) ==
    LET words == SelectSeq(block, LAMBDA x : x.t = "CAPS")
    IN  IF HasKeepWord(block, RbcKeepWords) THEN block
        ELSE IF Len(words) >= 2 /\ Len(words) <= 4 /\ TextLen(block) < 50
             THEN << PH("[NAME REDACTED]") >>
        ELSE block

(* what the match of n tokens at i is replaced by *)
Replacement(bk, rule, text, i, n) ==
    LET block == SubSeq(text, i, i + n - 1)
    IN  CASE bk = "cibc" /\ rule = "name" -> CibcNameReplace(block)
          [] bk = "rbc" /\ rule = "name" -> RbcNameReplace(block)
          [] rule = "accountNumber" -> << PH("Account number: [REDACTED]") >>
          [] rule = "transitNumber" -> << PH("Branch transit number: [REDACTED]") >>
          [] bk = "cibc" /\ rule = "eTransfer" ->
                << text[i], PH("[REF]"), NL, PH("[RECIPIENT]") >>
          [] bk = "rbc" /\ rule = "eTransfer" ->
                << text[i], PH("[RECIPIENT]"), PH("[REF]") >>
          [] rule = "merchantRef" -> << >>
          [] rule = "cadConversion" -> << >>
          [] rule = "longId" -> << PH("[REF]") >>
          [] rule = "standaloneAccount" -> << PH("[REDACTED]") >>
          [] rule = "unit" -> << PH("[UNIT]") >>
          [] rule = "street" -> << PH("[ADDRESS]") >>
          [] rule = "cityPostal" -> << PH("[CITY/POSTAL]") >>
          [] rule = "branchAddress" -> << PH("[BRANCH ADDRESS]") >>
          [] rule = "purchaseRef" -> << text[i], text[i + 1], PH("[REF]") >>
          [] rule = "docRef" ->
                IF text[i + n - 1].t = "NUM"
                THEN << PH("[DOC-REF]"), Tok("NUMTAIL", text[i + n - 1].v) >>
                ELSE IF text[i + n - 1].t = "PH"
                THEN << PH("[DOC-REF]"), PH(": [REDACTED]") >>
                ELSE << PH("[DOC-REF]") >>
          [] rule = "barcode" -> << PH("[BARCODE]") >>
          [] rule = "phone" -> << PH("[PHONE]") >>
          [] rule = "blankLines" -> << NL, NL >>

RECURSIVE ReplaceAll(_, _, _, _)
(* String.prototype.replace with a g flag: the matches from left to right, none
   overlapping another *)
ReplaceAll(bk, rule, text, i) ==
    IF i > Len(text) THEN << >>
    ELSE LET n == MatchLen(bk, rule, text, i)
         IN  IF n > 0
             THEN Replacement(bk, rule, text, i, n) \o ReplaceAll(bk, rule, text, i + n)
             ELSE << text[i] >> \o ReplaceAll(bk, rule, text, i + 1)

(* the replace calls of the two scrub functions, in the order of the source *)
RbcRules ==
    << "accountNumber", "standaloneAccount", "name", "unit", "street", "cityPostal",
       "branchAddress", "eTransfer", "refCode", "purchaseRef", "docRef", "barcode",
       "phone", "blankLines" >>

CibcRules ==
    << "name", "accountNumber", "transitNumber", "eTransfer", "merchantRef",
       "cadConversion", "longId", "blankLines" >>

Rules(bk) == IF bk = "rbc" THEN RbcRules ELSE CibcRules

RECURSIVE ScrubbedAfter(_, _, _)
(* scrubbed after the first n replace calls of scrub(text) *)
ScrubbedAfter(bk, text, n) ==
    IF n = 0 THEN text
    ELSE ReplaceAll(bk, Rules(bk)[n], ScrubbedAfter(bk, text, n - 1), 1)

(* scrub(text) of the scrubber of an issuer: what the function returns *)
scrub(bk, text) == ScrubbedAfter(bk, text, Len(Rules(bk)))

(* scrubbed = scrubbed.replace(...): the next replace call of scrub *)
ScrubRule ==
    /\ spc = "scrub"
    /\ sRule < Len(Rules(sBank))
    /\ sText' = ReplaceAll(sBank, Rules(sBank)[sRule + 1], sText, 1)
    /\ sRule' = sRule + 1
    /\ UNCHANGED <<sBank, sInput, spc>>
    /\ UNCHANGED nonScrubVars

ScrubReturn ==
    /\ spc = "scrub"
    /\ sRule = Len(Rules(sBank))
    /\ spc' = "done"
    /\ UNCHANGED <<sBank, sInput, sText, sRule>>
    /\ UNCHANGED nonScrubVars

InitScrub ==
    /\ ParseIdle
    /\ CoordIdle
    /\ DetectIdle
    /\ FlowIdle
    /\ LearnIdle
    /\ ExtractIdle
    /\ SessionIdle
    /\ NormalizeIdle
    /\ TempIdle
    /\ sBank \in {"rbc", "cibc"}
    /\ \E ls \in SeqsUpTo(ScrubLines(sBank), MaxScrubLines) : sInput = JoinLines(ls)
    /\ sText = sInput
    /\ sRule = 0
    /\ spc = "scrub"

NextScrub == ScrubRule \/ ScrubReturn

SpecScrub == InitScrub /\ [][NextScrub]_vars

----------------------------------------------------------------------------
(* Properties of the coordinate extractor *)

(* C4 (as claimed): no extractor emits an amount of zero because no amount could be
   resolved: a transaction of the coordinate extractor whose amount is 0 took it
   from a row that holds a withdrawal or a deposit value. *)
C4_NoZeroAmountDefault ==
    \A k \in 1..Len(cTransactions) :
        cTransactions[k].amount = 0 =>
            LET cols == assignToColumns(dataRows[cAt[k]], DefaultColumns)
            IN  parseAmount(cols.withdrawals) # <<>> \/ parseAmount(cols.deposits) # <<>>

----------------------------------------------------------------------------
(* Properties of detectBank *)

Issuers == <<"rbc", "cibc", "td", "scotiabank", "bmo">>

(* the issuers whose phrases are wholly inside the first 500 characters, read off the
   character positions of the text *)
PhraseWithin(text, name, need) ==
    \E i \in 1..Len(text) :
        text[i].name = name /\ ChunkStart(text, i) + need <= HeaderLen

IssuerHolds(text, issuer) ==
    CASE issuer = "rbc" ->
            \/ PhraseWithin(text, "Royal Bank of Canada", 20)
            \/ PhraseWithin(text, "www.rbcroyalbank.com", 20)
            \/ (PhraseWithin(text, "RBC", 3) /\ PhraseWithin(text, "account statement", 17))
      [] issuer = "cibc" ->
            PhraseWithin(text, "CIBC", 4) /\ PhraseWithin(text, "Account Statement", 17)
      [] issuer = "td" -> PhraseWithin(text, "TD Canada Trust", 15)
      [] issuer = "scotiabank" -> PhraseWithin(text, "Scotiabank", 6)
      [] issuer = "bmo" ->
            PhraseWithin(text, "BMO", 3) \/ PhraseWithin(text, "Bank of Montreal", 16)

(* C6: detectBank throws exactly when no issuer's phrases lie within the first 500
   characters; in particular a text whose every issuer phrase begins at or after
   character 500 is never detected. *)
C6_ThrowsIffNoIssuerInHeader ==
    dpc \in {"returned", "threw"} =>
        /\ (dpc = "threw") <=> (\A k \in 1..Len(Issuers) : ~IssuerHolds(dText, Issuers[k]))
        /\ (\A i \in 1..Len(dText) :
                dText[i].name # "filler" => ChunkStart(dText, i) >= HeaderLen)
             => dpc = "threw"

(* an issuer phrase is in the text, but only after character 500, and detection failed *)
C6_Witness ==
    /\ dpc = "threw"
    /\ \E i \in 1..Len(dText) :
           dText[i].name = "BMO" /\ ChunkStart(dText, i) >= HeaderLen

(* the texts that differ from the text given only from some chunk on *)
Variants(text) ==
    { SubSeq(text, 1, k) \o tl : k \in 0..Len(text), tl \in SeqsUpTo(ChunkSet, 1) }

(* C7: the tag returned is the earliest issuer, in the order RBC, CIBC, TD,
   Scotiabank, BMO, whose phrases lie within the header, and every text with the same
   first 500 characters gets the same outcome. *)
C7_FirstMatchWins ==
    dpc \in {"returned", "threw"} =>
        /\ dpc = "returned" =>
              \E k \in 1..Len(Issuers) :
                  /\ dResult = Issuers[k]
                  /\ IssuerHolds(dText, Issuers[k])
                  /\ \A j \in 1..(k - 1) : ~IssuerHolds(dText, Issuers[j])
        /\ \A t \in Variants(dText) :
              Substring0(t, HeaderLen) = Substring0(dText, HeaderLen) =>
                  detectBank(t) = (IF dpc = "threw" THEN "throw" ELSE dResult)

(* the header holds the phrases of CIBC and of RBC, and RBC was returned *)
C7_Witness ==
    /\ dpc = "returned"
    /\ dResult = "rbc"
    /\ IssuerHolds(dText, "cibc")
    /\ IssuerHolds(dText, "rbc")

----------------------------------------------------------------------------
(* Properties of the web application *)

(* C8 (as claimed): raw statement content never flows past the redaction boundary:
   whatever is sent over the network or shown on the review page is redacted, also
   under an encoding. *)
C8_NoRawPastRedactor ==
    /\ \A i \in 1..Len(fNet) : fNet[i].of.origin = "redacted"
    /\ \A i \in 1..Len(fShown) : fShown[i].origin = "redacted"

----------------------------------------------------------------------------
(* Properties of the scrubbers *)

(* the rules applied so far, in order *)
Applied == SubSeq(Rules(sBank), 1, sRule)

(* C9 (as claimed): in each issuer's rule sequence the e-transfer rule is applied
   before the all-capitals name rule: whenever the name rule has been applied, the
   e-transfer rule was applied before it. *)
C9_ETransferBeforeNames ==
    \A k \in 1..Len(Applied) :
        Applied[k] = "name" => \E j \in 1..(k - 1) : Applied[j] = "eTransfer"

(* the personal items of the vocabulary, and the tokens that are to survive *)
IsPII(tok) ==
    \/ tok.t \in {"ACCTNO", "MIXED", "UNIT", "STREET", "CITYPOSTAL", "PHONE"}
    \/ tok = Tok("DIGITS", "00123")
    \/ tok \in { Caps("JOHN"), Caps("SMITH") }

IsPreserved(tok) ==
    \/ tok.t \in {"DATE", "NUM", "ETR", "ETSENT", "PURCHTYPE"}
    \/ tok.t = "CAPS" /\ tok.v \in {"UBER", "CANADA", "VISA", "DEBIT", "RETAIL", "PURCHASE",
                                    "INTERNET", "BANKING"}

(* C10 (as claimed): the output of scrub holds none of the personal items of the
   input, and the dates, amounts, balances and merchant and description words of the
   input are all still there, in order; a merchant in capitals alone on a line is
   among them. *)
C10_RedactsAndPreserves ==
    spc = "done" =>
        /\ \A k \in 1..Len(sText) : ~IsPII(sText[k])
        /\ SelectSeq(sText, IsPreserved) = SelectSeq(sInput, IsPreserved)

----------------------------------------------------------------------------
(* Properties of POST /api/learn-merchant *)

(* the request of slot p was answered by the learning entry point itself, not by the
   route's catch block *)
Answered(p) == lpc[p] = "done" /\ lResp[p].status \in {200, 400}

CompleteBody(p) == lBody[p].normalized_merchant # "" /\ lBody[p].canonical_name # ""

(* C11 (as claimed): a learning request whose sample transaction has type credit is
   answered with success = false, whatever the canonical name and category, through the
   local route and through the remote route, and the dictionary file is not changed by
   it: while no other request has been received the file is still the seed. *)
C11_CreditAlwaysRejected ==
    \A p \in LearnSlots :
        (Answered(p) /\ CompleteBody(p) /\ lBody[p].transaction.type = "credit")
            => /\ lResp[p].success = "false"
               /\ (\A q \in LearnSlots \ {p} : lpc[q] = "idle") => dictFile \in SeedDictionaries

(* C12: the guardrail is evaluated before any mutation.  Every step of a request that
   learn_from_user_edit rejected leaves merchant_dictionary.json exactly as it was (the
   dictionary is not saved), the rejecting call leaves the dictionary in memory as
   loaded, and the local route returns the rejection as a structured
   { success: false, message } with the reason, not as an error. *)
C12_RejectionLeavesDictionary ==
    [][\A p \in LearnSlots :
          /\ (lpc[p] = "learn" /\ lpc'[p] = "save" /\ ~lResult'[p].success)
                => lDict'[p] = lDict[p] /\ dictFile' = dictFile
          /\ (lpc[p] \in {"save", "respond"} /\ lpc'[p] # lpc[p] /\ ~lResult[p].success)
                => /\ dictFile' = dictFile
                   /\ (route = "local" /\ lpc[p] = "respond")
                         => lResp'[p] = [status |-> 400, success |-> "false",
                                         message |-> lResult[p].message]
      ]_vars

(* C12 witness: the local route has answered a rejected request with the structured
   failure while the dictionary file holds entries *)
C12_Witness ==
    /\ route = "local"
    /\ dictFile # EmptyDictionary
    /\ \E p \in LearnSlots :
          /\ lpc[p] = "done"
          /\ lResp[p].status = 400
          /\ lResp[p].success = "false"
          /\ lResp[p].message = "credit_transaction"

(* the requests for key k that were answered success = true *)
AcceptedFor(k) ==
    { p \in LearnSlots : /\ lpc[p] = "done"
                         /\ lResp[p].success = "true"
                         /\ lBody[p].normalized_merchant = k }

(* C13 (as claimed): learning operations are serialized.  The load / mutate / save of
   two requests do not interleave: at most one request is between its load and its
   save; and no update is lost: the file holds an entry for every key of an accepted
   request, its version counting at least the accepted requests for that key. *)
C13_LearningSerialized ==
    /\ Cardinality({ p \in LearnSlots : lpc[p] \in {"learn", "save"} }) <= 1
    /\ \A k \in DictKeys : dictFile[k].version >= Cardinality(AcceptedFor(k))

----------------------------------------------------------------------------
(* Properties of POST /api/extract *)

(* C14 (as claimed): the dictionary file is written only by an accepted
   human-correction learning call: no step of extracting and matching changes
   merchant_dictionary.json. *)
C14_ExtractionLeavesDictionary == [][dictFile' = dictFile]_vars

(* the files of the request that extract-pdfplumber.py can extract *)
ReadableFiles == { i \in 1..Len(eFiles) : eFiles[i].readable }

(* C15 (as claimed): a document-level failure aborts that document only: a request
   with files is answered with the results of every document that can be extracted,
   whatever happens to the others. *)
C15_FailureAbortsDocumentOnly ==
    (epc = "done" /\ Len(eFiles) > 0)
        => /\ eResp.status = 200
           /\ Len(eResp.results) = Cardinality(ReadableFiles)

(* C16: a failure of dictionary building or of merchant matching is not fatal for
   extraction: when every file of the request is extracted, the request is answered
   200 with one result per file, and the result of a file whose dictionary step failed
   is its transactions as extracted before that step. *)
C16_DictionaryFailureNotFatal ==
    (epc = "done" /\ Len(eFiles) > 0 /\ ReadableFiles = 1..Len(eFiles))
        => /\ eResp.status = 200
           /\ Len(eResp.results) = Len(eFiles)
           /\ \A i \in eFallback : eResp.results[i] = ExtractedData(eFiles[i])

(* C16 witness: a request of two files answered 200, the dictionary step failed for
   one file and gave the other a category *)
C16_Witness ==
    /\ epc = "done"
    /\ eResp.status = 200
    /\ Len(eFiles) = 2
    /\ \E i \in eFallback : eResp.results[i].category = "null"
    /\ \E j \in 1..Len(eFiles) \ eFallback : eResp.results[j].category # "null"

----------------------------------------------------------------------------
(* Properties of the browser session *)

(* the ledger after review: each stored transaction as the review left it, that is its
   record in the stored low_confidence_transactions when it has one *)
FinalizedLedger ==
    LET stored == uScored[1]
    IN  [ i \in 1..Len(stored.transactions) |->
            LET t == stored.transactions[i]
                e == FindSame(stored.low_confidence_transactions, t)
            IN  IF e # <<>> THEN e[1] ELSE t ]

(* C17 (as claimed): the insights report is derived from the finalized ledger: what the
   insights page shows is the summary of the transactions as they are after review, so
   a correction saved on the review page before Continue is reflected in it. *)
C17_InsightsFromFinalizedLedger ==
    (uPage = "insights" /\ uShown # <<>>) => uShown[1] = summarize(FinalizedLedger)

----------------------------------------------------------------------------
(* Properties of the ledger as the insights read it *)

(* C18 (as claimed): a transaction contributes to the spend aggregates exactly when its
   signed amount is negative or its declared type is debit, and with that rule every
   debit the balance-reconciliation extractor emits is counted as spend and no credit
   it emits is. *)
C18_BalanceDebitsAreSpend ==
    (parser = "balance" /\ pc \in { "scan", "done" }) =>
        \A k \in 1..Len(transactions) :
            /\ transactions[k].type = "debit" => ContributesToSpend(transactions[k])
            /\ transactions[k].type = "credit" => ~ContributesToSpend(transactions[k])

----------------------------------------------------------------------------
(* Properties of normalize_merchant *)

(* C19 (as claimed): for a description "PREAUTHORIZED DEBIT|PAYMENT [reference] M" the
   normalization takes M as the merchant: a leading word of digits is removed only when
   it is the reference number, so "PREAUTHORIZED DEBIT 24 Hour Fitness" keeps the whole
   merchant name. *)
C19_MerchantAfterReference ==
    (npc = "done" /\ IsPreauthorized(<<nPrefix[1]>>)) => nResult = nMerchant

----------------------------------------------------------------------------
(* Properties of the issuer profiles *)

(* the modules of scrubbers/: the RBC scrubber and the CIBC scrubber *)
ScrubberModules == {"rbc", "cibc"}

(* scrubPII: require(`./scrubbers/${bank}`) *)
RequireScrubber(bk) == IF bk \in ScrubberModules THEN "loaded" ELSE "throw"

(* the balance-reconciliation extractor reads a date from some line under the tag *)
HasDateGrammar(bk) == \E line \in LineSet : BalanceDateParts(line, bk) # <<>>

(* C20 (as claimed): every issuer tag detectBank can return carries a redaction rule
   set and an extraction date grammar: loading its scrubber does not fail, and the
   extractor has a date expression for it, without which no line is ever in date
   context and the transaction list stays empty. *)
C20_EveryTagHasProfile ==
    dpc = "returned" => /\ RequireScrubber(dResult) = "loaded"
                        /\ HasDateGrammar(dResult)

----------------------------------------------------------------------------
(* C21: when the user saves a corrected merchant name for a group of the review page,
   the body posted to /api/learn-merchant carries as normalized_merchant the key the
   corrected transactions had (the key the group was opened under, the one a later
   lookup of the same merchant computes) and as canonical_name the edited name. *)
C21_LearnRequestCarriesOriginalKey ==
    (uFetch # <<>> /\ uFetch[1].editedMerchant # "") =>
        /\ uFetch[1].body.normalized_merchant = uFetch[1].normalizedMerchantKey
        /\ uFetch[1].body.canonical_name = uFetch[1].editedMerchant

----------------------------------------------------------------------------
(* C24: when Continue is pressed on the review page, every transaction of the stored
   scored data that belongs to a group whose merchant name the user edited and saved
   carries the edited display name, also when the edited name normalizes to a key other
   than the key the group had. *)
C24_ContinueStoresEditedNames ==
    [][ HandleContinue =>
          \A i \in 1..Len(uLow) :
              LET original == FindSame(uData[1].transactions, uLow[i])
                  stored == FindSame(uScored'[1].transactions, uLow[i])
              IN  (original # <<>> /\ uLow[i].merchant_display # original[1].merchant_display)
                      => (stored # <<>> /\ stored[1].merchant_display = uLow[i].merchant_display)
      ]_vars

----------------------------------------------------------------------------
(* the lines of the statement the extractor passed over although they hold a
   transaction, and the amount printed on a line *)
MissedLines == { k \in 2..Len(lines) : ContainsTok(lines[k], "ATM") }

PrintedAmount(k) == NumbersOf(lines[k])[1].v

(* the amount of the transaction emitted at line k *)
EmittedAmount(k) ==
    transactions[CHOOSE n \in 1..Len(emittedAt) : emittedAt[n] = k].amount

(* C22 (as claimed): after a single transaction line is missed by the balance-
   reconciliation extractor, the amount of every transaction emitted for a later line
   of the statement is wrong. *)
C22_GapDesynchronizesRemainder ==
    (pc = "done" /\ Cardinality(MissedLines) = 1) =>
        \A k \in EmittedLines :
            (\E g \in MissedLines : g < k) => EmittedAmount(k) # PrintedAmount(k)

(* C22 (amended): after a single missed line only the first transaction emitted after
   it is wrong: its amount is its own plus the amount of the missed line.  The carried
   balance is set to the balance read for that transaction, so every transaction
   emitted later, like every one emitted before the gap, has the amount printed on its
   line. *)
C22_GapConfinedToNextAmount ==
    (pc = "done" /\ Cardinality(MissedLines) = 1) =>
        \A k \in EmittedLines :
            IF k - 1 \in MissedLines
            THEN EmittedAmount(k) = PrintedAmount(k - 1) + PrintedAmount(k)
            ELSE EmittedAmount(k) = PrintedAmount(k)

(* C22 witness: one line was missed and two transactions were emitted after it, the
   first with a wrong amount and the second with the amount printed on its line *)
C22_Witness ==
    /\ pc = "done"
    /\ Cardinality(MissedLines) = 1
    /\ \E g \in MissedLines :
          /\ { g + 1, g + 2 } \subseteq EmittedLines
          /\ EmittedAmount(g + 1) # PrintedAmount(g + 1)
          /\ EmittedAmount(g + 2) = PrintedAmount(g + 2)

----------------------------------------------------------------------------
(* C23 (as claimed): when the line after an RBC transaction line holds a single decimal
   number with an integer part of 3 to 5 digits and no comma, the amount extracted is
   the value the code states, the number without its store code: "873.98" gives 3.98,
   "87110.71" gives 10.71 and "74613.56" gives 13.56. *)
C23_StoreCodeStripped ==
    \A n \in 1..Len(transactions) :
        LET glued == NumbersOf(lines[emittedAt[n] + 1])[1]
            len   == IntDigits(glued.v \div 100)
        IN  (len >= 3 /\ len <= 5 /\ ~HasComma(glued))
                => Abs(transactions[n].amount) = StatedAmount(glued.v)

----------------------------------------------------------------------------
(* C25 (as claimed): every transaction extracted from a statement has its date within
   the statement period [start_date, end_date] that the same call of parse returns,
   also when the period crosses a year boundary: each date is given the year that puts
   it inside the period. *)
C25_DatesWithinPeriod ==
    (parser = "balance" /\ period # <<>>) =>
        \A n \in 1..Len(transactions) :
            /\ period[1] <= transactions[n].date
            /\ transactions[n].date <= period[2]

----------------------------------------------------------------------------
(* C28: when the text holds no opening-balance statement the balance-reconciliation
   extractor never emits a transaction, whatever the transaction lines: the previous
   balance is set only from the opening balance or from an emitted transaction, so it
   stays unset. *)
C28_NoOpeningNoTransactions ==
    (parser = "balance" /\ OpeningMatch(lines) = <<>>) =>
        /\ transactions = <<>>
        /\ previousBalance = <<>>

(* C28 witness: the extractor has gone over a text of three lines without an opening
   balance, each line a dated transaction line with its amount and balance, and has
   returned no transaction *)
C28_Witness ==
    /\ parser = "balance" /\ bank = "cibc" /\ pc = "done"
    /\ OpeningMatch(lines) = <<>>
    /\ Len(lines) = MaxLines
    /\ \A k \in 1..Len(lines) :
          /\ BalanceDateParts(lines[k], bank) # <<>>
          /\ BalanceIsTransaction(lines[k])
          /\ ~ContainsTok(lines[k], "CORRECTION")
          /\ Len(NumbersOf(lines[k])) = 2
    /\ transactions = <<>>

----------------------------------------------------------------------------
(* the sign convention of a list of emitted transactions: debit exactly when the amount
   is negative, credit exactly when it is positive *)
SignConvention(list) ==
    \A k \in 1..Len(list) :
        /\ (list[k].type = "debit") <=> (list[k].amount < 0)
        /\ (list[k].type = "credit") <=> (list[k].amount > 0)

(* C29 (as claimed): the CIBC line-scan parser, the RBC line-scan parser, the
   coordinate extractor and the balance-reconciliation parser use one sign convention:
   in every transaction they emit, type is debit exactly when amount is negative and
   credit exactly when amount is positive. *)
C29_OneSignConvention ==
    /\ SignConvention(transactions)
    /\ SignConvention(cTransactions)

----------------------------------------------------------------------------
(* C27 (as claimed): redaction is idempotent for each issuer: scrub(scrub(text)) is
   scrub(text) for every text; no rule matches the placeholders or the shapes a
   previous pass of the rules has left. *)
C27_ScrubIdempotent ==
    spc = "done" => scrub(sBank, sText) = sText

----------------------------------------------------------------------------
(* The two command-line steps around the redaction: scrubPII (unnamed/part_002) detects
   the issuer of the raw text and runs its scrubber, parseTransactions (v3,
   unnamed/part_001) detects the issuer of the redacted text and gives the tag to the
   balance-based parser.  The header of a statement is made of the lines below; no line
   is empty, so every token is one character apart from the next. *)

HeaderLines ==
    { << Caps("JO"), Caps("LI") >>,
      << Tok("MIXED", "filler") >>,
      << Tok("MIXED", "Royal Bank of Canada") >>,
      << Caps("CIBC"), Tok("MIXED", "Account Statement") >>,
      << Tok("DOCREF", "RBPDA0001_123_456") >> }

HeaderTexts == { JoinLines(ls) : ls \in SeqsUpTo(HeaderLines, MaxHeaderLines) }

(* the text as detectBank reads it: its words, each with its number of characters *)
HeaderChunks(text) ==
    LET words == SelectSeq(text, LAMBDA x : x.t # "NL")
    IN  [ i \in 1..Len(words) |-> Chunk(words[i].v, CharLen(words[i])) ]

(* scrubPII: const bank = detectBank(text) is the step DetectCall; then the scrubber of
   the tag is loaded and scrub(text) begins *)
ScrubPIILoad ==
    /\ dpc = "returned"
    /\ spc = "idle"
    /\ IF RequireScrubber(dResult) = "loaded"
       THEN /\ sBank' = dResult
            /\ sText' = sInput
            /\ spc' = "scrub"
       ELSE /\ spc' = "threw"
            /\ UNCHANGED <<sBank, sText>>
    /\ UNCHANGED <<sInput, sRule>>
    /\ UNCHANGED nonScrubVars

(* parseTransactions (v3): const bank = detectBank(text) on the redacted text; the tag
   goes to parser.parse(text, bank), a throw leaves the step *)
ParseTransactionsDetect ==
    /\ spc = "done"
    /\ pc = "idle"
    /\ LET r == detectBank(HeaderChunks(sText))
       IN  IF r = "throw"
           THEN pc' = "threw" /\ UNCHANGED <<parser, bank>>
           ELSE pc' = "detected" /\ parser' = "balance" /\ bank' = r
    /\ UNCHANGED <<lines, idx, currentDate, previousBalance, summary, period, year,
                   transactions, emittedAt>>
    /\ UNCHANGED nonParseVars

InitPipeline ==
    /\ sInput \in HeaderTexts
    /\ dText = HeaderChunks(sInput)
    /\ dpc = "start"
    /\ dResult = ""
    /\ sBank = "none"
    /\ sText = <<>>
    /\ sRule = 0
    /\ spc = "idle"
    /\ ParseIdle
    /\ CoordIdle
    /\ FlowIdle
    /\ LearnIdle
    /\ ExtractIdle
    /\ SessionIdle
    /\ NormalizeIdle
    /\ TempIdle

NextPipeline ==
    \/ DetectCall
    \/ ScrubPIILoad
    \/ ScrubRule
    \/ ScrubReturn
    \/ ParseTransactionsDetect

SpecPipeline == InitPipeline /\ [][NextPipeline]_vars

(* C26 (as claimed): issuer detection commutes with redaction: when the raw text is
   detected as issuer b, detectBank of the text redacted by the scrubber of b returns b
   again (the redaction neither removes the header identifiers nor moves them out of
   the first 500 characters), so the scrub step and the parse step agree on the
   issuer. *)
C26_DetectionCommutesWithScrub ==
    (spc = "done" /\ pc # "idle") => (pc = "detected" /\ bank = dResult)


----------------------------------------------------------------------------
(* The temporary files of the local routes, with two requests in flight. A request
   is one call of POST of the extract route (one PDF in the form), of the insights
   route or of the merge route. *)

\* a request arrives with a body the route accepts, or with one it answers with 400
TempPost(r) ==
    /\ tpc[r] = "idle"
    /\ \E kind \in TempKinds, fileName \in UploadNames, size \in MergeSizes, valid \in BOOLEAN :
         /\ kind # "extract" => fileName = "a.pdf"
         /\ kind # "merge" => size = 1
         /\ tKind' = [tKind EXCEPT ![r] = kind]
         /\ IF valid
               THEN /\ tTodo' = [tTodo EXCEPT ![r] = TempNames(kind, fileName, size)]
                    /\ tpc' = [tpc EXCEPT ![r] = "naming"]
                    /\ tResp' = tResp
               ELSE /\ tTodo' = tTodo
                    /\ tpc' = [tpc EXCEPT ![r] = "returned"]
                    /\ tResp' = [tResp EXCEPT ![r] = << [status |-> 400, data |-> {}] >>]
    /\ UNCHANGED <<tClock, tFiles, tDisk>>
    /\ UNCHANGED nonTempVars

\* one path.join(os.tmpdir(), `..._${Date.now()}...`), with the writeFile that follows it
TempName(r) ==
    /\ tpc[r] = "naming"
    /\ LET name == Head(tTodo[r])
           path == TempPath(name, tClock)
           files == Append(tFiles[r], path)
       IN  /\ tFiles' = [tFiles EXCEPT ![r] = files]
           /\ tTodo' = [tTodo EXCEPT ![r] = Tail(tTodo[r])]
           /\ tpc' = [tpc EXCEPT ![r] = IF Tail(tTodo[r]) = <<>> THEN "exec" ELSE "naming"]
           /\ tDisk' = IF tKind[r] = "merge" /\ name.prefix = "statement"
                          THEN WriteFile(tDisk, path, {r})
                          ELSE IF tKind[r] # "merge" /\ Tail(tTodo[r]) = <<>>
                                  THEN WriteFile(tDisk, files[1], {r})
                                  ELSE tDisk
    /\ UNCHANGED <<tClock, tKind, tResp>>
    /\ UNCHANGED nonTempVars

\* execAsync(command): the script reads its input paths and writes its output path
TempExec(r) ==
    /\ tpc[r] = "exec"
    /\ \E ok \in BOOLEAN :
         IF ok /\ \A p \in InputPaths(tFiles[r]) : OnDisk(tDisk, p)
            THEN /\ tDisk' = WriteFile(tDisk, OutputPath(tFiles[r]),
                                UNION { DataAt(tDisk, p) : p \in InputPaths(tFiles[r]) })
                 /\ tpc' = [tpc EXCEPT ![r] = "read"]
                 /\ tResp' = tResp
            ELSE /\ tDisk' = tDisk
                 /\ tpc' = [tpc EXCEPT ![r] = "cleanup"]
                 /\ tResp' = [tResp EXCEPT ![r] = << [status |-> 500, data |-> {}] >>]
    /\ UNCHANGED <<tClock, tKind, tTodo, tFiles>>
    /\ UNCHANGED nonTempVars

\* readFile of the output path, JSON.parse
TempRead(r) ==
    /\ tpc[r] = "read"
    /\ tResp' = [tResp EXCEPT ![r] = IF OnDisk(tDisk, OutputPath(tFiles[r]))
                                        THEN << [status |-> 200,
                                                  data |-> DataAt(tDisk, OutputPath(tFiles[r]))] >>
                                        ELSE << [status |-> 500, data |-> {}] >>]
    /\ tpc' = [tpc EXCEPT ![r] = "cleanup"]
    /\ UNCHANGED <<tClock, tKind, tTodo, tFiles, tDisk>>
    /\ UNCHANGED nonTempVars

\* Promise.all(tempFiles.map(f => unlink(f).catch(...))), then the response
TempCleanup(r) ==
    /\ tpc[r] = "cleanup"
    /\ tDisk' = Unlink(tDisk, PathsOf(tFiles[r]))
    /\ tpc' = [tpc EXCEPT ![r] = "returned"]
    /\ UNCHANGED <<tClock, tKind, tTodo, tFiles, tResp>>
    /\ UNCHANGED nonTempVars

\* a millisecond passes
TempTick ==
    /\ tClock < MaxClock
    /\ tClock' = tClock + 1
    /\ UNCHANGED <<tKind, tpc, tTodo, tFiles, tDisk, tResp>>
    /\ UNCHANGED nonTempVars

InitTemp ==
    /\ tClock = 0
    /\ tKind = [r \in Requests |-> ""]
    /\ tpc = [r \in Requests |-> "idle"]
    /\ tTodo = [r \in Requests |-> <<>>]
    /\ tFiles = [r \in Requests |-> <<>>]
    /\ tDisk = {}
    /\ tResp = [r \in Requests |-> <<>>]
    /\ ParseIdle
    /\ CoordIdle
    /\ DetectIdle
    /\ FlowIdle
    /\ ScrubIdle
    /\ LearnIdle
    /\ ExtractIdle
    /\ SessionIdle
    /\ NormalizeIdle

NextTemp ==
    \/ \E r \in Requests : TempPost(r)
    \/ \E r \in Requests : TempName(r)
    \/ \E r \in Requests : TempExec(r)
    \/ \E r \in Requests : TempRead(r)
    \/ \E r \in Requests : TempCleanup(r)
    \/ TempTick

SpecTemp == InitTemp /\ [][NextTemp]_vars

\* C30: two requests in flight at the same time never hold the same temporary file
\* path, and once a request has returned none of the paths it built is on disk.
C30_TempFilesPrivateAndDeleted ==
    /\ \A r1 \in Requests, r2 \in Requests :
         (r1 # r2 /\ InFlight(r1) /\ InFlight(r2))
            => PathsOf(tFiles[r1]) \cap PathsOf(tFiles[r2]) = {}
    /\ \A r \in Requests :
         tpc[r] = "returned" => \A p \in PathsOf(tFiles[r]) : ~OnDisk(tDisk, p)

====
